---- MODULE Spec2Model ----
(***************************************************************************)
(* HelixCFG: the rule-based evaluation and reporting pipeline.             *)
(*                                                                         *)
(*   domain/utils/typeGuards.ts      typed slot getters                    *)
(*   domain/engines/rules.ts         the seven compatibility rules         *)
(*   domain/engines/ruleEngine.ts    RuleEngine (registry, execute)        *)
(*   domain/engines/compatibility.ts the process-wide ruleEngine           *)
(*   domain/engines/balance.ts       checkBalance                          *)
(*   domain/engines/recommendations.ts generateRecommendations             *)
(*   domain/services/buildReport.ts  generateBuildReport                   *)
(*   app/store.ts                    the application store and its actions *)
(*                                                                         *)
(* JavaScript values are modelled as follows.  `undefined` ids and strings *)
(* are the string Undefined; a number that is undefined or NaN is NaN      *)
(* (comparisons with it are false, arithmetic with it gives NaN); an array *)
(* property that is absent is UndefinedList, and calling a method on it    *)
(* throws.  A function that can throw returns a record with a `threw`      *)
(* flag.                                                                   *)
(***************************************************************************)
EXTENDS Integers, Sequences, FiniteSets, TLC

VARIABLES
    rules,          \* ruleEngine.rules: the Map's values (rule objects) in insertion order
    unregistered,   \* the rule objects a caller holds that are not in the Map
    last,           \* the latest call of an entry point: its arguments, the registry
                    \* it ran against, and what it returned
    store,          \* the state of useAppStore: components, prices, presets,
                    \* currentBuild, report
    call            \* the latest action of the store: its name and arguments, the
                    \* build before it and the object of that build after it

vars == <<rules, unregistered, last, store, call>>

-----------------------------------------------------------------------------
(* JavaScript value helpers *)

Undefined == "undefined"
UndefinedList == <<"undefined">>
NaN == -1

JsLt(a, b) == a # NaN /\ b # NaN /\ a < b
JsGt(a, b) == a # NaN /\ b # NaN /\ a > b
JsGe(a, b) == a # NaN /\ b # NaN /\ a >= b
JsLe(a, b) == a # NaN /\ b # NaN /\ a <= b
JsAdd(a, b) == IF a = NaN \/ b = NaN THEN NaN ELSE a + b
\* a < b * (pct / 100) and a > b * (pct / 100), computed in hundredths
JsLtTimes(a, b, pct) == a # NaN /\ b # NaN /\ a * 100 < b * pct
JsGtTimes(a, b, pct) == a # NaN /\ b # NaN /\ a * 100 > b * pct

Includes(seq, x) == \E i \in 1..Len(seq) : seq[i] = x

\* a slice that does not truncate
TakeAll(seq, n) == seq

\* Array.prototype.slice(0, n)
Take(seq, n) == SubSeq(seq, 1, IF Len(seq) < n THEN Len(seq) ELSE n)

-----------------------------------------------------------------------------
(* Domain model (domain/model/types.ts) *)

NoSpecs ==
    [type |-> Undefined, socket |-> Undefined, cores |-> NaN, tdpW |-> NaN,
     vramGB |-> NaN, lengthMm |-> NaN, formFactor |-> Undefined, ramSlots |-> NaN,
     ramType |-> Undefined, capacityGB |-> NaN, storageType |-> Undefined,
     socketCompatibility |-> UndefinedList, formFactorCompatibility |-> UndefinedList,
     maxGpuLengthMm |-> NaN, wattage |-> NaN]

CpuSpecs(socket, cores, tdpW) ==
    [NoSpecs EXCEPT !.type = "CPU", !.socket = socket, !.cores = cores, !.tdpW = tdpW]
GpuSpecs(vramGB, lengthMm, tdpW) ==
    [NoSpecs EXCEPT !.type = "GPU", !.vramGB = vramGB, !.lengthMm = lengthMm, !.tdpW = tdpW]
MotherboardSpecs(socket, formFactor, ramSlots, ramType) ==
    [NoSpecs EXCEPT !.type = "Motherboard", !.socket = socket, !.formFactor = formFactor,
                    !.ramSlots = ramSlots, !.ramType = ramType]
RamSpecs(ramType, capacityGB) ==
    [NoSpecs EXCEPT !.type = "RAM", !.ramType = ramType, !.capacityGB = capacityGB]
StorageSpecs(storageType, capacityGB) ==
    [NoSpecs EXCEPT !.type = "Storage", !.storageType = storageType, !.capacityGB = capacityGB]
CoolerSpecs(socketCompatibility) ==
    [NoSpecs EXCEPT !.type = "Cooler", !.socketCompatibility = socketCompatibility]
CaseSpecs(formFactorCompatibility, maxGpuLengthMm) ==
    [NoSpecs EXCEPT !.type = "Case", !.formFactorCompatibility = formFactorCompatibility,
                    !.maxGpuLengthMm = maxGpuLengthMm]
PsuSpecs(wattage) ==
    [NoSpecs EXCEPT !.type = "PSU", !.wattage = wattage]

\* A catalog entry; Component.type always equals specs.type
Component(id, specs) == [id |-> id, type |-> specs.type, specs |-> specs]

Build(cpu, gpu, motherboard, cooler, case, psu, ram, storage, target) ==
    [cpu |-> cpu, gpu |-> gpu, motherboard |-> motherboard, cooler |-> cooler,
     case |-> case, psu |-> psu, ram |-> ram, storage |-> storage,
     meta |-> [target |-> target]]

Price(componentId, value) == [componentId |-> componentId, value |-> value, currency |-> "USD"]

RuleResult(code, severity, message, affectedIds) ==
    [code |-> code, severity |-> severity, message |-> message, affectedIds |-> affectedIds]

Recommendation(reasonCode, message, replaceId, alternatives) ==
    [reasonCode |-> reasonCode, message |-> message, replaceId |-> replaceId,
     alternatives |-> alternatives]

Targets == {"gaming", "work", "mixed"}

\* components.find(c => c.id === id): the first entry with that id, or none
RECURSIVE FindIndex(_, _, _)
FindIndex(components, id, i) ==
    IF i > Len(components) THEN 0
    ELSE IF components[i].id = id THEN i
    ELSE FindIndex(components, id, i + 1)

Resolves(components, id) == FindIndex(components, id, 1) # 0
Find(components, id) == components[FindIndex(components, id, 1)]

\* ids.map(id => components.find(..)).filter(Boolean)
RECURSIVE ResolveAll(_, _)
ResolveAll(ids, components) ==
    IF ids = <<>> THEN <<>>
    ELSE (IF Resolves(components, Head(ids)) THEN <<Find(components, Head(ids))>> ELSE <<>>)
         \o ResolveAll(Tail(ids), components)

RECURSIVE Ids(_)
Ids(comps) == IF comps = <<>> THEN <<>> ELSE <<Head(comps).id>> \o Ids(Tail(comps))

-----------------------------------------------------------------------------
(* domain/utils/typeGuards.ts *)

\* The outcome of a getter is a sequence: <<>> for null, <<component>> otherwise

\* a getter that leaves out the isCPU .. isPSU check of the specs
GetTypedUnguarded(id, components, type) ==
    IF id = Undefined THEN <<>>
    ELSE IF ~Resolves(components, id) THEN <<>>
    ELSE <<Find(components, id)>>

GetTyped(id, components, type) ==
    IF id = Undefined THEN <<>>
    ELSE IF ~Resolves(components, id) THEN <<>>
    ELSE IF Find(components, id).specs.type # type THEN <<>>
    ELSE <<Find(components, id)>>

getCPU(build, components) == GetTyped(build.cpu, components, "CPU")
getGPU(build, components) == GetTyped(build.gpu, components, "GPU")
getMotherboard(build, components) == GetTyped(build.motherboard, components, "Motherboard")
getCooler(build, components) == GetTyped(build.cooler, components, "Cooler")
getCase(build, components) == GetTyped(build.case, components, "Case")
getPSU(build, components) == GetTyped(build.psu, components, "PSU")

\* getRAM / getStorage without the isRAM / isStorage check
GetTypedListUnguarded(ids, components, type) == ResolveAll(ids, components)

RECURSIVE GetTypedList(_, _, _)
GetTypedList(ids, components, type) ==
    IF ids = <<>> THEN <<>>
    ELSE (IF Resolves(components, Head(ids)) /\ Find(components, Head(ids)).specs.type = type
          THEN <<Find(components, Head(ids))>> ELSE <<>>)
         \o GetTypedList(Tail(ids), components, type)

getRAM(build, components) == GetTypedList(build.ram, components, "RAM")
getStorage(build, components) == GetTypedList(build.storage, components, "Storage")

-----------------------------------------------------------------------------
(* domain/engines/rules.ts *)

\* What a rule's check does: it returns null (res = <<>>), returns one
\* RuleResult (res = <<r>>), or throws.
NoFinding == [threw |-> FALSE, res |-> <<>>]
Finding(r) == [threw |-> FALSE, res |-> <<r>>]
Throws == [threw |-> TRUE, res |-> <<>>]

calculateEstimatedWatt(cpu, gpu, rams, storages) ==
    LET w0 == 50
        w1 == IF cpu # <<>> THEN JsAdd(w0, cpu[1].specs.tdpW) ELSE w0
        w2 == IF gpu # <<>> THEN JsAdd(w1, gpu[1].specs.tdpW) ELSE w1
        w3 == JsAdd(w2, Len(rams) * 10)
    IN  JsAdd(w3, Len(storages) * 5)

RECURSIVE IncompatibleRams(_, _)
IncompatibleRams(rams, ramType) ==
    IF rams = <<>> THEN <<>>
    ELSE (IF Head(rams).specs.ramType # ramType THEN <<Head(rams)>> ELSE <<>>)
         \o IncompatibleRams(Tail(rams), ramType)

\* the socket rule naming the motherboard first
socketCheckSwapped(build, components) ==
    LET cpu == getCPU(build, components)
        motherboard == getMotherboard(build, components)
    IN  IF cpu = <<>> \/ motherboard = <<>> THEN NoFinding
        ELSE IF cpu[1].specs.socket # motherboard[1].specs.socket
        THEN Finding(RuleResult("cpu-socket-mismatch", "error", "CPU socket mismatch",
                 <<motherboard[1].id, cpu[1].id>>))
        ELSE NoFinding

\* the socket rule reporting a CPU without a motherboard
socketCheckMissingMotherboard(build, components) ==
    LET cpu == getCPU(build, components)
        motherboard == getMotherboard(build, components)
    IN  IF cpu # <<>> /\ motherboard = <<>>
        THEN Finding(RuleResult("missing-motherboard", "error", "No motherboard selected",
                 <<cpu[1].id>>))
        ELSE IF cpu = <<>> \/ motherboard = <<>> THEN NoFinding
        ELSE IF cpu[1].specs.socket # motherboard[1].specs.socket
        THEN Finding(RuleResult("cpu-socket-mismatch", "error",
                 "CPU socket " \o cpu[1].specs.socket \o " != MB socket "
                     \o motherboard[1].specs.socket,
                 <<cpu[1].id, motherboard[1].id>>))
        ELSE NoFinding

socketCompatibilityCheck(build, components) ==
    LET cpu == getCPU(build, components)
        motherboard == getMotherboard(build, components)
    IN  IF cpu = <<>> \/ motherboard = <<>> THEN NoFinding
        ELSE IF cpu[1].specs.socket # motherboard[1].specs.socket
        THEN Finding(RuleResult("cpu-socket-mismatch", "error",
                 "CPU socket " \o cpu[1].specs.socket \o " != MB socket "
                     \o motherboard[1].specs.socket,
                 <<cpu[1].id, motherboard[1].id>>))
        ELSE NoFinding

ramTypeCompatibilityCheck(build, components) ==
    LET motherboard == getMotherboard(build, components)
        rams == getRAM(build, components)
    IN  IF motherboard = <<>> \/ Len(rams) = 0 THEN NoFinding
        ELSE LET incompatibleRams == IncompatibleRams(rams, motherboard[1].specs.ramType)
             IN  IF Len(incompatibleRams) > 0
                 THEN Finding(RuleResult("ram-type-mismatch", "error",
                          "RAM type incompatible with motherboard DDR type "
                              \o motherboard[1].specs.ramType,
                          <<motherboard[1].id>> \o Ids(incompatibleRams)))
                 ELSE NoFinding

formFactorCompatibilityCheck(build, components) ==
    LET motherboard == getMotherboard(build, components)
        case_ == getCase(build, components)
    IN  IF motherboard = <<>> \/ case_ = <<>> THEN NoFinding
        ELSE IF case_[1].specs.formFactorCompatibility = UndefinedList THEN Throws
        ELSE IF ~Includes(case_[1].specs.formFactorCompatibility,
                          motherboard[1].specs.formFactor)
        THEN Finding(RuleResult("form-factor-incompatible", "error",
                 "Motherboard form factor " \o motherboard[1].specs.formFactor
                     \o " not supported by case",
                 <<motherboard[1].id, case_[1].id>>))
        ELSE NoFinding

gpuLengthCompatibilityCheck(build, components) ==
    LET gpu == getGPU(build, components)
        case_ == getCase(build, components)
    IN  IF gpu = <<>> \/ case_ = <<>> THEN NoFinding
        ELSE IF JsGt(gpu[1].specs.lengthMm, case_[1].specs.maxGpuLengthMm)
        THEN Finding(RuleResult("gpu-length-exceeds", "error",
                 "GPU length " \o ToString(gpu[1].specs.lengthMm) \o "mm exceeds case max "
                     \o ToString(case_[1].specs.maxGpuLengthMm) \o "mm",
                 <<gpu[1].id, case_[1].id>>))
        ELSE NoFinding

\* the PSU rule with an error up to and including 1.25 times the estimate
psuWattageCheckInclusive(build, components) ==
    LET cpu == getCPU(build, components)
        gpu == getGPU(build, components)
        rams == getRAM(build, components)
        storages == getStorage(build, components)
        psu == getPSU(build, components)
        estimatedWatt == calculateEstimatedWatt(cpu, gpu, rams, storages)
    IN  IF cpu = <<>> /\ gpu = <<>> /\ Len(rams) = 0 /\ Len(storages) = 0 THEN NoFinding
        ELSE IF psu = <<>> THEN NoFinding
        ELSE IF JsLtTimes(psu[1].specs.wattage, estimatedWatt, 125)
                \/ (/\ psu[1].specs.wattage # NaN /\ estimatedWatt # NaN
                    /\ psu[1].specs.wattage * 100 = estimatedWatt * 125)
        THEN Finding(RuleResult("psu-insufficient", "error",
                 "PSU " \o ToString(psu[1].specs.wattage) \o "W insufficient for estimated "
                     \o ToString(estimatedWatt) \o "W system",
                 <<psu[1].id>>))
        ELSE IF JsLtTimes(psu[1].specs.wattage, estimatedWatt, 150)
        THEN Finding(RuleResult("psu-close", "warning",
                 "PSU " \o ToString(psu[1].specs.wattage) \o "W is close to estimated "
                     \o ToString(estimatedWatt) \o "W system",
                 <<psu[1].id>>))
        ELSE NoFinding

\* the PSU rule reporting a close PSU with severity error
psuWattageCheckCloseAsError(build, components) ==
    LET cpu == getCPU(build, components)
        gpu == getGPU(build, components)
        rams == getRAM(build, components)
        storages == getStorage(build, components)
        psu == getPSU(build, components)
        estimatedWatt == calculateEstimatedWatt(cpu, gpu, rams, storages)
    IN  IF cpu = <<>> /\ gpu = <<>> /\ Len(rams) = 0 /\ Len(storages) = 0 THEN NoFinding
        ELSE IF psu = <<>> THEN NoFinding
        ELSE IF JsLtTimes(psu[1].specs.wattage, estimatedWatt, 125)
        THEN Finding(RuleResult("psu-insufficient", "error",
                 "PSU " \o ToString(psu[1].specs.wattage) \o "W insufficient for estimated "
                     \o ToString(estimatedWatt) \o "W system",
                 <<psu[1].id>>))
        ELSE IF JsLtTimes(psu[1].specs.wattage, estimatedWatt, 150)
        THEN Finding(RuleResult("psu-close", "error",
                 "PSU " \o ToString(psu[1].specs.wattage) \o "W is close to estimated "
                     \o ToString(estimatedWatt) \o "W system",
                 <<psu[1].id>>))
        ELSE NoFinding

psuWattageCheck(build, components) ==
    LET cpu == getCPU(build, components)
        gpu == getGPU(build, components)
        rams == getRAM(build, components)
        storages == getStorage(build, components)
        psu == getPSU(build, components)
        estimatedWatt == calculateEstimatedWatt(cpu, gpu, rams, storages)
    IN  IF cpu = <<>> /\ gpu = <<>> /\ Len(rams) = 0 /\ Len(storages) = 0 THEN NoFinding
        ELSE IF psu = <<>> THEN NoFinding
        ELSE IF JsLtTimes(psu[1].specs.wattage, estimatedWatt, 125)
        THEN Finding(RuleResult("psu-insufficient", "error",
                 "PSU " \o ToString(psu[1].specs.wattage) \o "W insufficient for estimated "
                     \o ToString(estimatedWatt) \o "W system",
                 <<psu[1].id>>))
        ELSE IF JsLtTimes(psu[1].specs.wattage, estimatedWatt, 150)
        THEN Finding(RuleResult("psu-close", "warning",
                 "PSU " \o ToString(psu[1].specs.wattage) \o "W is close to estimated "
                     \o ToString(estimatedWatt) \o "W system",
                 <<psu[1].id>>))
        ELSE NoFinding

\* the RAM slots rule counting the entries of build.ram, resolved or not
ramSlotsCheckCountingEntries(build, components) ==
    LET motherboard == getMotherboard(build, components)
        rams == getRAM(build, components)
    IN  IF motherboard = <<>> \/ Len(build.ram) = 0 THEN NoFinding
        ELSE IF JsGt(Len(build.ram), motherboard[1].specs.ramSlots)
        THEN Finding(RuleResult("ram-slots-exceed", "error",
                 "Too many RAM sticks (" \o ToString(Len(build.ram))
                     \o ") for motherboard slots ("
                     \o ToString(motherboard[1].specs.ramSlots) \o ")",
                 <<motherboard[1].id>> \o Ids(rams)))
        ELSE NoFinding

ramSlotsCheck(build, components) ==
    LET motherboard == getMotherboard(build, components)
        rams == getRAM(build, components)
    IN  IF motherboard = <<>> \/ Len(rams) = 0 THEN NoFinding
        ELSE IF JsGt(Len(rams), motherboard[1].specs.ramSlots)
        THEN Finding(RuleResult("ram-slots-exceed", "error",
                 "Too many RAM sticks (" \o ToString(Len(rams))
                     \o ") for motherboard slots ("
                     \o ToString(motherboard[1].specs.ramSlots) \o ")",
                 <<motherboard[1].id>> \o Ids(rams)))
        ELSE NoFinding

coolerCompatibilityCheck(build, components) ==
    LET cpu == getCPU(build, components)
        cooler == getCooler(build, components)
    IN  IF cpu = <<>> \/ cooler = <<>> THEN NoFinding
        ELSE IF cooler[1].specs.socketCompatibility = UndefinedList THEN Throws
        ELSE IF ~Includes(cooler[1].specs.socketCompatibility, cpu[1].specs.socket)
        THEN Finding(RuleResult("cooler-incompatible", "error",
                 "Cooler not compatible with CPU socket " \o cpu[1].specs.socket,
                 <<cooler[1].id, cpu[1].id>>))
        ELSE NoFinding

\* A rule object: its check is named by `check` and applied by RunCheck
Rule(id, check, priority) ==
    [id |-> id, check |-> check, priority |-> priority, enabled |-> TRUE]

socketCompatibilityRule == Rule("cpu-socket-match", "socket", 100)
ramTypeCompatibilityRule == Rule("ram-type-match", "ramType", 95)
formFactorCompatibilityRule == Rule("form-factor-match", "formFactor", 90)
gpuLengthCompatibilityRule == Rule("gpu-length-fit", "gpuLength", 85)
psuWattageRule == Rule("psu-wattage-check", "psuWattage", 80)
ramSlotsRule == Rule("ram-slots-check", "ramSlots", 75)
coolerCompatibilityRule == Rule("cooler-socket-match", "cooler", 70)


-----------------------------------------------------------------------------
(* domain/engines/ruleEngine.ts *)

\* rule.check(build, components)
RunCheck(check, build, components) ==
    CASE check = "socket" -> socketCompatibilityCheck(build, components)
      [] check = "ramType" -> ramTypeCompatibilityCheck(build, components)
      [] check = "formFactor" -> formFactorCompatibilityCheck(build, components)
      [] check = "gpuLength" -> gpuLengthCompatibilityCheck(build, components)
      [] check = "psuWattage" -> psuWattageCheck(build, components)
      [] check = "ramSlots" -> ramSlotsCheck(build, components)
      [] check = "cooler" -> coolerCompatibilityCheck(build, components)
      \* checks of rules registered by a caller of the exported ruleEngine
      [] check = "note" -> Finding(RuleResult("custom-note", "info", "noted", <<>>))
      [] check = "faulty" -> Throws

RuleIndex(rs, ruleId) ==
    IF \E i \in 1..Len(rs) : rs[i].id = ruleId
    THEN CHOOSE i \in 1..Len(rs) : rs[i].id = ruleId
    ELSE 0

\* Map.set: an existing key keeps its position, a new key goes last
register(rs, rule) ==
    IF RuleIndex(rs, rule.id) # 0 THEN [rs EXCEPT ![RuleIndex(rs, rule.id)] = rule]
    ELSE Append(rs, rule)

unregister(rs, ruleId) == SelectSeq(rs, LAMBDA r : r.id # ruleId)

SetEnabled(rs, ruleId, flag) ==
    IF RuleIndex(rs, ruleId) # 0 THEN [rs EXCEPT ![RuleIndex(rs, ruleId)].enabled = flag]
    ELSE rs

enableRule(rs, ruleId) == SetEnabled(rs, ruleId, TRUE)
disableRule(rs, ruleId) == SetEnabled(rs, ruleId, FALSE)

\* Array.prototype.sort((a, b) => b.priority - a.priority): stable
RECURSIVE InsertByPriority(_, _)
InsertByPriority(sorted, rule) ==
    IF sorted = <<>> THEN <<rule>>
    ELSE IF Head(sorted).priority >= rule.priority
         THEN <<Head(sorted)>> \o InsertByPriority(Tail(sorted), rule)
         ELSE <<rule>> \o sorted

RECURSIVE SortByPriority(_)
SortByPriority(rs) ==
    IF rs = <<>> THEN <<>>
    ELSE InsertByPriority(SortByPriority(SubSeq(rs, 1, Len(rs) - 1)), rs[Len(rs)])

\* .map(rule => rule.check(..)): the outcomes in order; a throw ends the map
RECURSIVE MapChecks(_, _, _)
MapChecks(rs, build, components) ==
    IF rs = <<>> THEN [threw |-> FALSE, results |-> <<>>]
    ELSE LET r == RunCheck(Head(rs).check, build, components)
         IN  IF r.threw THEN [threw |-> TRUE, results |-> <<>>]
             ELSE LET rest == MapChecks(Tail(rs), build, components)
                  IN  IF rest.threw THEN rest
                      ELSE [threw |-> FALSE, results |-> r.res \o rest.results]

\* execute without the sort: the enabled rules in registration order
executeUnsorted(rs, build, components) ==
    MapChecks(SelectSeq(rs, LAMBDA r : r.enabled), build, components)

\* execute without the filter: disabled rules run too
executeIgnoringEnabled(rs, build, components) ==
    MapChecks(SortByPriority(rs), build, components)

\* execute that remembers the call before it and returns only the findings
\* that call did not return
executeNewOnly(rs, build, components) ==
    LET r == MapChecks(SortByPriority(SelectSeq(rs, LAMBDA x : x.enabled)), build, components)
        before == IF last.op = "generateBuildReport" THEN last.report.errors
                  ELSE last.findings
    IN  [r EXCEPT !.results =
             SelectSeq(r.results, LAMBDA f : \A i \in 1..Len(before) : before[i] # f)]

execute(rs, build, components) ==
    MapChecks(SortByPriority(SelectSeq(rs, LAMBDA r : r.enabled)), build, components)

-----------------------------------------------------------------------------
(* domain/engines/compatibility.ts *)

\* the module-level ruleEngine after the seven register calls
DefaultRules ==
    register(register(register(register(register(register(register(<<>>,
        socketCompatibilityRule), ramTypeCompatibilityRule), formFactorCompatibilityRule),
        gpuLengthCompatibilityRule), psuWattageRule), ramSlotsRule), coolerCompatibilityRule)

checkCompatibility(rs, build, components) == execute(rs, build, components)

\* the arguments after checkCompatibility: execute sorts the array that filter
\* returned, not the registry's, and the rules read the build and the catalog
\* through find, map, filter and property reads
checkCompatibilityArguments(build, components) ==
    [build |-> build, components |-> components]

-----------------------------------------------------------------------------
(* domain/engines/balance.ts *)

\* build.x ? components.find(c => c.id === build.x) || null : null
FindSlot(id, components) ==
    IF id = Undefined \/ id = "" THEN <<>>
    ELSE IF Resolves(components, id) THEN <<Find(components, id)>> ELSE <<>>

balanceEstimatedWatt(cpu, gpu, rams, storages) ==
    LET w0 == 50
        w1 == IF cpu # <<>> THEN JsAdd(w0, cpu[1].specs.tdpW) ELSE w0
        w2 == IF gpu # <<>> THEN JsAdd(w1, gpu[1].specs.tdpW) ELSE w1
        w3 == JsAdd(w2, Len(rams) * 10)
    IN  JsAdd(w3, Len(storages) * 5)

RECURSIVE SumCapacity(_)
SumCapacity(rams) ==
    IF rams = <<>> THEN 0
    ELSE JsAdd(SumCapacity(SubSeq(rams, 1, Len(rams) - 1)), rams[Len(rams)].specs.capacityGB)

\* Rule 1: CPU/GPU mismatch for gaming, whatever the target
cpuGpuMismatchAnyTarget(target, cpu, gpu) ==
    IF cpu # <<>> /\ gpu # <<>>
       /\ JsLt(cpu[1].specs.cores, 6) /\ JsGe(gpu[1].specs.vramGB, 8)
    THEN <<RuleResult("cpu-gpu-mismatch", "warning",
               "CPU may bottleneck high-end GPU in gaming", <<cpu[1].id, gpu[1].id>>)>>
    ELSE <<>>

\* Rule 1: CPU/GPU mismatch for gaming
cpuGpuMismatch(target, cpu, gpu) ==
    IF target = "gaming" /\ cpu # <<>> /\ gpu # <<>>
       /\ JsLt(cpu[1].specs.cores, 6) /\ JsGe(gpu[1].specs.vramGB, 8)
    THEN <<RuleResult("cpu-gpu-mismatch", "warning",
               "CPU may bottleneck high-end GPU in gaming", <<cpu[1].id, gpu[1].id>>)>>
    ELSE <<>>

\* Rule 2: too little RAM, with the gaming threshold for work too
insufficientRamOneThreshold(target, rams) ==
    LET totalRamGB == SumCapacity(rams)
    IN  IF target = "gaming" /\ JsLt(totalRamGB, 16)
        THEN <<RuleResult("insufficient-ram-gaming", "warning",
                   "Only " \o ToString(totalRamGB)
                       \o "GB RAM for gaming, recommend at least 16GB", Ids(rams))>>
        ELSE IF target = "work" /\ JsLt(totalRamGB, 16)
        THEN <<RuleResult("insufficient-ram-work", "warning",
                   "Only " \o ToString(totalRamGB)
                       \o "GB RAM for work, recommend at least 32GB", Ids(rams))>>
        ELSE <<>>

\* Rule 2: too little RAM
insufficientRam(target, rams) ==
    LET totalRamGB == SumCapacity(rams)
    IN  IF target = "gaming" /\ JsLt(totalRamGB, 16)
        THEN <<RuleResult("insufficient-ram-gaming", "warning",
                   "Only " \o ToString(totalRamGB)
                       \o "GB RAM for gaming, recommend at least 16GB", Ids(rams))>>
        ELSE IF target = "work" /\ JsLt(totalRamGB, 32)
        THEN <<RuleResult("insufficient-ram-work", "warning",
                   "Only " \o ToString(totalRamGB)
                       \o "GB RAM for work, recommend at least 32GB", Ids(rams))>>
        ELSE <<>>

\* Rule 3: no SSD, silent when no storage entry resolves
noSsdAmongSome(storages) ==
    IF storages # <<>> /\ ~\E i \in 1..Len(storages) : storages[i].specs.storageType = "SSD"
    THEN <<RuleResult("no-ssd", "warning", "No SSD selected, system may be slow",
               Ids(storages))>>
    ELSE <<>>

\* Rule 3: no SSD
noSsd(storages) ==
    LET hasSSD == \E i \in 1..Len(storages) : storages[i].specs.storageType = "SSD"
    IN  IF ~hasSSD
        THEN <<RuleResult("no-ssd", "warning", "No SSD selected, system may be slow",
                   Ids(storages))>>
        ELSE <<>>

\* Rule 4: PSU oversized, from 2.2 times the estimate on
psuOversizedInclusive(cpu, gpu, psu, rams, storages) ==
    LET estimatedWatt == balanceEstimatedWatt(cpu, gpu, rams, storages)
    IN  IF (cpu # <<>> \/ gpu # <<>> \/ Len(rams) > 0 \/ Len(storages) > 0)
           /\ psu # <<>>
           /\ (\/ JsGtTimes(psu[1].specs.wattage, estimatedWatt, 220)
               \/ /\ psu[1].specs.wattage # NaN /\ estimatedWatt # NaN
                  /\ psu[1].specs.wattage * 100 = estimatedWatt * 220)
        THEN <<RuleResult("psu-oversized", "warning",
                   "PSU " \o ToString(psu[1].specs.wattage) \o "W is oversized for "
                       \o ToString(estimatedWatt) \o "W system", <<psu[1].id>>)>>
        ELSE <<>>

\* Rule 4: PSU oversized
psuOversized(cpu, gpu, psu, rams, storages) ==
    LET estimatedWatt == balanceEstimatedWatt(cpu, gpu, rams, storages)
    IN  IF (cpu # <<>> \/ gpu # <<>> \/ Len(rams) > 0 \/ Len(storages) > 0)
           /\ psu # <<>> /\ JsGtTimes(psu[1].specs.wattage, estimatedWatt, 220)
        THEN <<RuleResult("psu-oversized", "warning",
                   "PSU " \o ToString(psu[1].specs.wattage) \o "W is oversized for "
                       \o ToString(estimatedWatt) \o "W system", <<psu[1].id>>)>>
        ELSE <<>>

checkBalance(build, components) ==
    LET cpu == FindSlot(build.cpu, components)
        gpu == FindSlot(build.gpu, components)
        psu == FindSlot(build.psu, components)
        rams == ResolveAll(build.ram, components)
        storages == ResolveAll(build.storage, components)
        target == build.meta.target
    IN  cpuGpuMismatch(target, cpu, gpu) \o insufficientRam(target, rams)
            \o noSsd(storages) \o psuOversized(cpu, gpu, psu, rams, storages)


\* the arguments after checkBalance: the components are looked up with find,
\* the lists with map and filter, which return new arrays
checkBalanceArguments(build, components) ==
    [build |-> build, components |-> components]

-----------------------------------------------------------------------------
(* domain/engines/recommendations.ts *)

\* components.find(c => c.id === id) with id possibly undefined
FindAny(id, components) ==
    IF Resolves(components, id) THEN <<Find(components, id)>> ELSE <<>>

\* components.filter(c => c.type === type && test(c)).slice(0, 3)
Candidates(components, type, Test(_)) ==
    Take(SelectSeq(components, LAMBDA c : c.type = type /\ Test(c)), 3)

\* the socket fix proposing the CPU replacement before the motherboard one
recommendCpuSocketFixCpuFirst(build, components, issue) ==
    LET cpu == FindAny(build.cpu, components)
        motherboard == FindAny(build.motherboard, components)
    IN  IF cpu = <<>> \/ motherboard = <<>> THEN <<>>
        ELSE LET cpuSocket == cpu[1].specs.socket
                 mbSocket == motherboard[1].specs.socket
                 matchingMbs == Candidates(components, "Motherboard",
                                           LAMBDA c : c.specs.socket = cpuSocket)
                 matchingCpus == Candidates(components, "CPU",
                                            LAMBDA c : c.specs.socket = mbSocket)
             IN  (IF Len(matchingCpus) > 0
                  THEN <<Recommendation(issue.code,
                            "Replace CPU with one for " \o mbSocket \o " socket",
                            cpu[1].id, Ids(matchingCpus))>>
                  ELSE <<>>)
                 \o
                 (IF Len(matchingMbs) > 0
                  THEN <<Recommendation(issue.code,
                            "Replace motherboard with one supporting " \o cpuSocket \o " socket",
                            motherboard[1].id, Ids(matchingMbs))>>
                  ELSE <<>>)

recommendCpuSocketFix(build, components, issue) ==
    LET cpu == FindAny(build.cpu, components)
        motherboard == FindAny(build.motherboard, components)
    IN  IF cpu = <<>> \/ motherboard = <<>> THEN <<>>
        ELSE LET cpuSocket == cpu[1].specs.socket
                 mbSocket == motherboard[1].specs.socket
                 matchingMbs == Candidates(components, "Motherboard",
                                           LAMBDA c : c.specs.socket = cpuSocket)
                 matchingCpus == Candidates(components, "CPU",
                                            LAMBDA c : c.specs.socket = mbSocket)
             IN  (IF Len(matchingMbs) > 0
                  THEN <<Recommendation(issue.code,
                            "Replace motherboard with one supporting " \o cpuSocket \o " socket",
                            motherboard[1].id, Ids(matchingMbs))>>
                  ELSE <<>>)
                 \o
                 (IF Len(matchingCpus) > 0
                  THEN <<Recommendation(issue.code,
                            "Replace CPU with one for " \o mbSocket \o " socket",
                            cpu[1].id, Ids(matchingCpus))>>
                  ELSE <<>>)

\* issue.affectedIds.find(id => components.find(c => c.id === id)?.type === 'RAM')
FirstRamId(affectedIds, components) ==
    LET hits == SelectSeq(affectedIds,
                    LAMBDA id : Resolves(components, id) /\ Find(components, id).type = "RAM")
    IN  IF hits = <<>> THEN Undefined ELSE hits[1]

recommendRamTypeFix(build, components, issue) ==
    LET motherboard == FindAny(build.motherboard, components)
    IN  IF motherboard = <<>> THEN <<>>
        ELSE LET mbRamType == motherboard[1].specs.ramType
                 matchingRams == Candidates(components, "RAM",
                                            LAMBDA c : c.specs.ramType = mbRamType)
             IN  IF Len(matchingRams) > 0
                 THEN <<Recommendation(issue.code,
                           "Replace RAM with " \o mbRamType \o " compatible sticks",
                           FirstRamId(issue.affectedIds, components), Ids(matchingRams))>>
                 ELSE <<>>

recommendFormFactorFix(build, components, issue) ==
    LET motherboard == FindAny(build.motherboard, components)
        case_ == FindAny(build.case, components)
    IN  IF motherboard = <<>> \/ case_ = <<>> THEN <<>>
        ELSE LET mbFormFactor == motherboard[1].specs.formFactor
                 matchingCases == Candidates(components, "Case",
                     LAMBDA c : Includes(c.specs.formFactorCompatibility, mbFormFactor))
             IN  IF Len(matchingCases) > 0
                 THEN <<Recommendation(issue.code,
                           "Replace case with one supporting " \o mbFormFactor \o " motherboards",
                           case_[1].id, Ids(matchingCases))>>
                 ELSE <<>>

recommendGpuLengthFix(build, components, issue) ==
    LET gpu == FindAny(build.gpu, components)
        case_ == FindAny(build.case, components)
    IN  IF gpu = <<>> \/ case_ = <<>> THEN <<>>
        ELSE LET caseMax == case_[1].specs.maxGpuLengthMm
                 shorterGpus == Candidates(components, "GPU",
                                           LAMBDA c : JsLe(c.specs.lengthMm, caseMax))
                 biggerCases == Candidates(components, "Case",
                     LAMBDA c : JsGe(c.specs.maxGpuLengthMm, gpu[1].specs.lengthMm))
             IN  (IF Len(shorterGpus) > 0
                  THEN <<Recommendation(issue.code, "Replace GPU with shorter model",
                            gpu[1].id, Ids(shorterGpus))>>
                  ELSE <<>>)
                 \o
                 (IF Len(biggerCases) > 0
                  THEN <<Recommendation(issue.code, "Replace case with larger model",
                            case_[1].id, Ids(biggerCases))>>
                  ELSE <<>>)

recommendPsuUpgrade(build, components, issue) ==
    LET psu == FindAny(build.psu, components)
    IN  IF psu = <<>> THEN <<>>
        ELSE LET currentWatt == psu[1].specs.wattage
                 higherPsus == Candidates(components, "PSU",
                                          LAMBDA c : JsGt(c.specs.wattage, currentWatt))
             IN  IF Len(higherPsus) > 0
                 THEN <<Recommendation(issue.code, "Upgrade to higher wattage PSU",
                           psu[1].id, Ids(higherPsus))>>
                 ELSE <<>>

recommendCpuGpuBalance(build, components, issue) ==
    LET cpu == FindAny(build.cpu, components)
        gpu == FindAny(build.gpu, components)
    IN  IF cpu = <<>> \/ gpu = <<>> THEN <<>>
        ELSE LET betterCpus == Candidates(components, "CPU", LAMBDA c : JsGe(c.specs.cores, 6))
                 weakerGpus == Candidates(components, "GPU", LAMBDA c : JsLt(c.specs.vramGB, 8))
             IN  (IF Len(betterCpus) > 0
                  THEN <<Recommendation(issue.code, "Upgrade CPU for better balance",
                            cpu[1].id, Ids(betterCpus))>>
                  ELSE <<>>)
                 \o
                 (IF Len(weakerGpus) > 0
                  THEN <<Recommendation(issue.code, "Downgrade GPU for better balance",
                            gpu[1].id, Ids(weakerGpus))>>
                  ELSE <<>>)

\* the RAM advice leaving the first selected module out of its candidates
recommendMoreRamOtherModules(build, components, issue) ==
    LET minGB == IF build.meta.target = "gaming" THEN 16 ELSE 32
        first == IF Len(build.ram) > 0 THEN build.ram[1] ELSE Undefined
        biggerRams == Candidates(components, "RAM",
                                 LAMBDA c : JsGe(c.specs.capacityGB * 2, minGB) /\ c.id # first)
    IN  IF Len(biggerRams) > 0
        THEN <<Recommendation(issue.code, "Add more RAM to reach " \o ToString(minGB) \o "GB",
                  first, Ids(biggerRams))>>
        ELSE <<>>

recommendMoreRam(build, components, issue) ==
    LET minGB == IF build.meta.target = "gaming" THEN 16 ELSE 32
        \* capacityGB >= minGB / 2
        biggerRams == Candidates(components, "RAM",
                                 LAMBDA c : JsGe(c.specs.capacityGB * 2, minGB))
    IN  IF Len(biggerRams) > 0
        THEN <<Recommendation(issue.code, "Add more RAM to reach " \o ToString(minGB) \o "GB",
                  IF Len(build.ram) > 0 THEN build.ram[1] ELSE Undefined, Ids(biggerRams))>>
        ELSE <<>>

recommendAddSSD(build, components, issue) ==
    LET ssds == Candidates(components, "Storage", LAMBDA c : c.specs.storageType = "SSD")
    IN  IF Len(ssds) > 0
        THEN <<Recommendation(issue.code, "Add an SSD for faster performance", "", Ids(ssds))>>
        ELSE <<>>

\* a dispatch that also proposes a PSU upgrade for a psu-close finding
RecommendForPsuClose(build, components, issue) ==
    CASE issue.code = "cpu-socket-mismatch" -> recommendCpuSocketFix(build, components, issue)
      [] issue.code = "ram-type-mismatch" -> recommendRamTypeFix(build, components, issue)
      [] issue.code = "form-factor-incompatible" -> recommendFormFactorFix(build, components, issue)
      [] issue.code = "gpu-length-exceeds" -> recommendGpuLengthFix(build, components, issue)
      [] issue.code \in {"psu-insufficient", "psu-close"} ->
             recommendPsuUpgrade(build, components, issue)
      [] issue.code = "cpu-gpu-mismatch" -> recommendCpuGpuBalance(build, components, issue)
      [] issue.code \in {"insufficient-ram-gaming", "insufficient-ram-work"} ->
             recommendMoreRam(build, components, issue)
      [] issue.code = "no-ssd" -> recommendAddSSD(build, components, issue)
      [] OTHER -> <<>>

\* the switch on issue.code
RecommendFor(build, components, issue) ==
    CASE issue.code = "cpu-socket-mismatch" -> recommendCpuSocketFix(build, components, issue)
      [] issue.code = "ram-type-mismatch" -> recommendRamTypeFix(build, components, issue)
      [] issue.code = "form-factor-incompatible" -> recommendFormFactorFix(build, components, issue)
      [] issue.code = "gpu-length-exceeds" -> recommendGpuLengthFix(build, components, issue)
      [] issue.code = "psu-insufficient" -> recommendPsuUpgrade(build, components, issue)
      [] issue.code = "cpu-gpu-mismatch" -> recommendCpuGpuBalance(build, components, issue)
      [] issue.code \in {"insufficient-ram-gaming", "insufficient-ram-work"} ->
             recommendMoreRam(build, components, issue)
      [] issue.code = "no-ssd" -> recommendAddSSD(build, components, issue)
      [] OTHER -> <<>>

RECURSIVE RecommendAll(_, _, _)
RecommendAll(build, components, allIssues) ==
    IF allIssues = <<>> THEN <<>>
    ELSE RecommendFor(build, components, Head(allIssues))
         \o RecommendAll(build, components, Tail(allIssues))

generateRecommendations(build, components, errors, warnings) ==
    RecommendAll(build, components, errors \o warnings)

\* a generator that collects the issues in the errors array itself:
\* errors.push(...warnings)
generateRecommendationsPushing(build, components, errors, warnings) ==
    [build |-> build, components |-> components, errors |-> errors \o warnings,
     warnings |-> warnings]

\* the arguments after generateRecommendations: allIssues is a new array,
\* [...errors, ...warnings], and the strategies read the catalog through
\* find, filter, slice and map
generateRecommendationsArguments(build, components, errors, warnings) ==
    [build |-> build, components |-> components, errors |-> errors, warnings |-> warnings]

-----------------------------------------------------------------------------
(* domain/services/buildReport.ts *)

\* a selection that keeps an id the catalog does not have, as a component
\* without specs
getSelectedComponentsUnresolved(build, components) ==
    LET ids == SelectSeq(<<build.cpu, build.gpu, build.motherboard, build.cooler,
                           build.case, build.psu>> \o build.ram \o build.storage,
                         LAMBDA id : id # Undefined /\ id # "")
    IN  [i \in 1..Len(ids) |->
            IF Resolves(components, ids[i]) THEN Find(components, ids[i])
            ELSE Component(ids[i], NoSpecs)]

getSelectedComponents(build, components) ==
    LET ids == SelectSeq(<<build.cpu, build.gpu, build.motherboard, build.cooler,
                           build.case, build.psu>> \o build.ram \o build.storage,
                         LAMBDA id : id # Undefined /\ id # "")
    IN  ResolveAll(ids, components)

\* the keys of `grouped` in insertion order: each id at its first occurrence
RECURSIVE GroupedKeys(_)
GroupedKeys(ids) ==
    IF ids = <<>> THEN <<>>
    ELSE LET init == GroupedKeys(SubSeq(ids, 1, Len(ids) - 1))
         IN  IF Includes(init, ids[Len(ids)]) THEN init ELSE Append(init, ids[Len(ids)])

Occurrences(ids, id) == Cardinality({i \in 1..Len(ids) : ids[i] = id})

\* prices.find(p => p.componentId === id)
FindPrice(prices, id) == SelectSeq(prices, LAMBDA p : p.componentId = id)

LineItem(componentId, quantity, unitPrice, total, currency) ==
    [componentId |-> componentId, quantity |-> quantity, unitPrice |-> unitPrice,
     total |-> total, currency |-> currency]

RECURSIVE PriceItems(_, _, _)
\* the for loop over Object.entries(grouped)
PriceItems(keys, ids, prices) ==
    IF keys = <<>> THEN [totalPrice |-> 0, lineItems |-> <<>>]
    ELSE LET init == PriceItems(SubSeq(keys, 1, Len(keys) - 1), ids, prices)
             id == keys[Len(keys)]
             qty == Occurrences(ids, id)
             price == FindPrice(prices, id)
         IN  IF price # <<>>
             THEN LET unitPrice == price[1].value
                      totalForItem == unitPrice * qty
                  IN  [totalPrice |-> init.totalPrice + totalForItem,
                       lineItems |-> Append(init.lineItems,
                           LineItem(id, qty, unitPrice, totalForItem, price[1].currency))]
             ELSE init

RECURSIVE PriceItemsOnce(_, _, _)
PriceItemsOnce(keys, ids, prices) ==
    IF keys = <<>> THEN [totalPrice |-> 0, lineItems |-> <<>>]
    ELSE LET init == PriceItemsOnce(SubSeq(keys, 1, Len(keys) - 1), ids, prices)
             id == keys[Len(keys)]
             qty == Occurrences(ids, id)
             price == FindPrice(prices, id)
         IN  IF price # <<>>
             THEN [totalPrice |-> init.totalPrice + price[1].value,
                   lineItems |-> Append(init.lineItems,
                       LineItem(id, qty, price[1].value, price[1].value * qty,
                                price[1].currency))]
             ELSE init

\* pricing that adds each unit price to the total once, whatever the quantity
calculatePricingOnce(selectedComponents, prices) ==
    PriceItemsOnce(GroupedKeys(Ids(selectedComponents)), Ids(selectedComponents), prices)

\* pricing with one line item per selected component, identical ones not grouped
calculatePricingUngrouped(selectedComponents, prices) ==
    LET priced == SelectSeq(Ids(selectedComponents), LAMBDA id : FindPrice(prices, id) # <<>>)
        items == [i \in 1..Len(priced) |->
                    LineItem(priced[i], 1, FindPrice(prices, priced[i])[1].value,
                             FindPrice(prices, priced[i])[1].value,
                             FindPrice(prices, priced[i])[1].currency)]
    IN  [totalPrice |-> PriceItems(GroupedKeys(priced), priced, prices).totalPrice,
         lineItems |-> items]

calculatePricing(selectedComponents, prices) ==
    PriceItems(GroupedKeys(Ids(selectedComponents)), Ids(selectedComponents), prices)

\* a summary that reports no issues whenever there are no errors
generateSummaryIgnoringWarnings(build, errors, warnings, totalPrice) ==
    LET errorCount == Len(errors)
        warningCount == Len(warnings)
    IN  "Build for " \o build.meta.target \o " with " \o ToString(totalPrice) \o " USD total."
        \o (IF errorCount > 0
            THEN " " \o ToString(errorCount) \o " compatibility error(s) found." ELSE "")
        \o (IF warningCount > 0
            THEN " " \o ToString(warningCount) \o " balance warning(s)." ELSE "")
        \o (IF errorCount = 0 THEN " No issues detected." ELSE "")

generateSummary(build, errors, warnings, totalPrice) ==
    LET errorCount == Len(errors)
        warningCount == Len(warnings)
    IN  "Build for " \o build.meta.target \o " with " \o ToString(totalPrice) \o " USD total."
        \o (IF errorCount > 0
            THEN " " \o ToString(errorCount) \o " compatibility error(s) found." ELSE "")
        \o (IF warningCount > 0
            THEN " " \o ToString(warningCount) \o " balance warning(s)." ELSE "")
        \o (IF errorCount = 0 /\ warningCount = 0 THEN " No issues detected." ELSE "")

\* what a call that threw leaves its caller with
NoReport ==
    [threw |-> TRUE, totalPrice |-> 0, lineItems |-> <<>>, errors |-> <<>>,
     warnings |-> <<>>, recommendations |-> <<>>, summary |-> "", fitment |-> <<>>]

\* the arguments after calculatePricing: the price list is read through find
calculatePricingArguments(selectedComponents, prices) == [prices |-> prices]

\* the report's errors and warnings are the arrays checkCompatibility and
\* checkBalance returned, as generateRecommendations left them
generateBuildReport(rs, build, components, prices) ==
    LET selectedComponents == getSelectedComponents(build, components)
        compat == checkCompatibility(rs, build, components)
        found == checkBalance(build, components)
        recommendations == generateRecommendations(build, components, compat.results, found)
        left == generateRecommendationsArguments(build, components, compat.results, found)
        errors == left.errors
        warnings == left.warnings
        pricing == calculatePricing(selectedComponents, prices)
        summary == generateSummary(build, errors, warnings, pricing.totalPrice)
    IN  IF compat.threw THEN NoReport
        ELSE [threw |-> FALSE, totalPrice |-> pricing.totalPrice,
              lineItems |-> pricing.lineItems, errors |-> errors, warnings |-> warnings,
              recommendations |-> recommendations, summary |-> summary, fitment |-> <<>>]

\* the arguments after generateBuildReport, each callee handing on what it
\* left of them
generateBuildReportArguments(rs, build, components, prices) ==
    LET a == checkCompatibilityArguments(build, components)
        b == checkBalanceArguments(a.build, a.components)
        c == generateRecommendationsArguments(b.build, b.components,
                 checkCompatibility(rs, build, components).results,
                 checkBalance(build, components))
        d == calculatePricingArguments(getSelectedComponents(build, components), prices)
    IN  [build |-> c.build, components |-> c.components, prices |-> d.prices]

-----------------------------------------------------------------------------
(* Inputs: catalogs, price lists and builds *)

CatalogFull ==
    << Component("cpuA", CpuSpecs("AM4", 4, 65)),
       Component("cpuB", CpuSpecs("LGA1700", 6, 125)),
       Component("gpuA", GpuSpecs(8, 300, 200)),
       Component("gpuB", GpuSpecs(4, 200, 50)),
       Component("mbA", MotherboardSpecs("AM4", "ATX", 2, "DDR4")),
       Component("mbB", MotherboardSpecs("LGA1700", "E-ATX", 1, "DDR5")),
       Component("ramA", RamSpecs("DDR4", 8)),
       Component("ramB", RamSpecs("DDR5", 16)),
       Component("ssd", StorageSpecs("SSD", 1000)),
       Component("hdd", StorageSpecs("HDD", 2000)),
       Component("coolA", CoolerSpecs(<<"LGA1700">>)),
       Component("caseA", CaseSpecs(<<"ATX", "Micro-ATX">>, 250)),
       Component("psuA", PsuSpecs(150)),
       Component("psuB", PsuSpecs(396)),
       Component("ssdB", StorageSpecs("SSD", 500)),
       Component("ssdC", StorageSpecs("SSD", 250)),
       Component("ssdD", StorageSpecs("SSD", 2000)) >>

\* A catalog in which some of the ids the builds use are absent (cpuB, gpuB,
\* hdd) and others belong to components of another type than the slot the
\* builds put them in.
CatalogCrossed ==
    << Component("cpuA", CpuSpecs("AM4", 4, 65)),
       Component("mbA", PsuSpecs(500)),
       Component("mbB", MotherboardSpecs("LGA1700", "E-ATX", 1, "DDR5")),
       Component("gpuA", CaseSpecs(<<"ATX">>, 100)),
       Component("ramA", CpuSpecs("AM5", 6, 95)),
       Component("ramB", RamSpecs("DDR4", 16)),
       Component("ssd", StorageSpecs("SSD", 500)),
       Component("coolA", MotherboardSpecs("AM4", "ATX", 2, "DDR4")),
       Component("caseA", GpuSpecs(8, 300, 200)),
       Component("psuA", PsuSpecs(300)),
       Component("psuB", RamSpecs("DDR5", 8)) >>

CatalogNames == {"empty", "full", "crossed"}

Catalog(name) ==
    CASE name = "empty" -> <<>>
      [] name = "full" -> CatalogFull
      [] name = "crossed" -> CatalogCrossed

PricesAll ==
    << Price("cpuA", 100), Price("cpuB", 300), Price("gpuA", 500), Price("gpuB", 150),
       Price("mbA", 120), Price("mbB", 200), Price("ramA", 70), Price("ramB", 90),
       Price("ssd", 80), Price("hdd", 50), Price("coolA", 40), Price("caseA", 60),
       Price("psuA", 45), Price("psuB", 110) >>

\* Some components have no price, ramA has two (the first one is found), and
\* one price is for a component of no catalog.
PricesSome ==
    << Price("cpuA", 100), Price("ramA", 70), Price("ramA", 75), Price("gpuA", 500),
       Price("ghost", 999), Price("mbB", 200), Price("ssd", 80), Price("caseA", 60) >>

PriceListNames == {"none", "some", "all"}

PriceList(name) ==
    CASE name = "none" -> <<>>
      [] name = "some" -> PricesSome
      [] name = "all" -> PricesAll

\* the largest number of parts (filled slots, RAM and storage entries) of a build
MaxParts == 3

RECURSIVE SeqsUpTo(_, _)
\* the sequences over S of length at most n
SeqsUpTo(S, n) ==
    IF n = 0 THEN {<<>>}
    ELSE LET shorter == SeqsUpTo(S, n - 1)
         IN  shorter \cup {Append(q, x) : q \in {r \in shorter : Len(r) = n - 1}, x \in S}

Filled(id) == IF id = Undefined THEN 0 ELSE 1

\* the choices for the six single slots, with the number of slots they fill
SlotChoices ==
    { s \in {Undefined, "cpuA", "cpuB"} \X {Undefined, "gpuA", "gpuB"}
            \X {Undefined, "mbA", "mbB"} \X {Undefined, "coolA"}
            \X {Undefined, "caseA"} \X {Undefined, "psuA", "psuB"} :
        Filled(s[1]) + Filled(s[2]) + Filled(s[3]) + Filled(s[4]) + Filled(s[5])
            + Filled(s[6]) <= MaxParts }

SlotParts(s) ==
    Filled(s[1]) + Filled(s[2]) + Filled(s[3]) + Filled(s[4]) + Filled(s[5]) + Filled(s[6])

\* the RAM and storage lists of at most n entries together
ListChoices ==
    [ n \in 0..MaxParts |->
        { l \in SeqsUpTo({"ramA", "ramB"}, n) \X SeqsUpTo({"ssd", "hdd"}, n) :
            Len(l[1]) + Len(l[2]) <= n } ]

\* builds of the kind the repository's tests use: one that breaks every
\* compatibility rule, one without any issue, one with four identical RAM sticks
AllWrongBuild ==
    Build("cpuA", "gpuA", "mbB", "coolA", "caseA", "psuA", <<"ramA", "ramA">>, <<>>, "mixed")
CleanBuild ==
    Build("cpuA", "gpuB", "mbA", Undefined, "caseA", "psuB", <<"ramA", "ramA">>, <<"ssd">>,
          "gaming")
DuplicatesBuild ==
    Build("cpuA", "gpuA", "mbA", Undefined, Undefined, Undefined,
          <<"ramA", "ramA", "ramA", "ramA">>, <<"ssd", "hdd">>, "gaming")
ExampleBuilds == {AllWrongBuild, CleanBuild, DuplicatesBuild}

Builds ==
    ExampleBuilds \cup
    UNION { { Build(s[1], s[2], s[3], s[4], s[5], s[6], l[1], l[2], target) :
                l \in ListChoices[MaxParts - SlotParts(s)], target \in Targets } :
            s \in SlotChoices }

-----------------------------------------------------------------------------
(* app/store.ts *)

\* z.array(z.string()).max(4) and .max(6) of BuildSchema
MaxRam == 4
MaxStorage == 6

\* const initialBuild: the slots and the budget are absent, the lists empty
initialBuild ==
    [cpu |-> Undefined, gpu |-> Undefined, motherboard |-> Undefined, cooler |-> Undefined,
     case |-> Undefined, psu |-> Undefined, ram |-> <<>>, storage |-> <<>>,
     meta |-> [target |-> "gaming", budget |-> NaN]]

\* the state create() starts with; report: null is <<>>, a report r is <<r>>
InitialStore ==
    [components |-> <<>>, prices |-> <<>>, presets |-> <<>>, currentBuild |-> initialBuild,
     report |-> <<>>]

Preset(id, build) == [id |-> id, build |-> build]

\* no action yet
NoCall ==
    [op |-> "none", type |-> "", id |-> Undefined, ids |-> <<>>, before |-> initialBuild,
     previous |-> initialBuild, build |-> initialBuild]

ListKeys == {"ram", "storage"}

\* if (id): undefined and the empty string are falsy
Truthy(id) == id # Undefined /\ id # ""

\* const newBuild = { ...state.currentBuild }; newBuild[type] = value
WithKey(build, type, value) == [build EXCEPT ![type] = value]

\* the end of every action that makes a new build: generateBuildReport for
\* it and set() of { currentBuild: newBuild, report }; nothing is set when
\* generateBuildReport throws
Regenerated(rs, state, newBuild) ==
    LET report == generateBuildReport(rs, newBuild, state.components, state.prices)
    IN  IF report.threw THEN state
        ELSE [state EXCEPT !.currentBuild = newBuild, !.report = <<report>>]

setComponents(state, components) == [state EXCEPT !.components = components]

setPrices(state, prices) == [state EXCEPT !.prices = prices]

setPresets(state, presets) == [state EXCEPT !.presets = presets]

\* newBuild of selectComponent; id is a string for a slot and an array for
\* ram and storage
selectComponent(state, type, id) == WithKey(state.currentBuild, type, id)

\* arr.filter(i => i !== id)
FilterOut(arr, id) == SelectSeq(arr, LAMBDA i : i # id)

\* the index of the first entry equal to id, 0 if there is none
RECURSIVE IndexOf(_, _, _)
IndexOf(arr, id, from) ==
    IF from > Len(arr) THEN 0
    ELSE IF arr[from] = id THEN from
    ELSE IndexOf(arr, id, from + 1)

\* a removal of the first occurrence only
removeComponentFirstOnly(state, type, id) ==
    LET arr == state.currentBuild[type]
        k == IndexOf(arr, id, 1)
    IN  IF type \in ListKeys
        THEN IF Truthy(id)
             THEN WithKey(state.currentBuild, type,
                          IF k = 0 THEN arr
                          ELSE SubSeq(arr, 1, k - 1) \o SubSeq(arr, k + 1, Len(arr)))
             ELSE WithKey(state.currentBuild, type, <<>>)
        ELSE WithKey(state.currentBuild, type, Undefined)

\* newBuild of removeComponent
removeComponent(state, type, id) ==
    IF type \in ListKeys
    THEN IF Truthy(id)
         THEN WithKey(state.currentBuild, type, FilterOut(state.currentBuild[type], id))
         ELSE WithKey(state.currentBuild, type, <<>>)
    ELSE WithKey(state.currentBuild, type, Undefined)

\* the build object removeComponent replaced, after the action: newBuild is a
\* spread copy and filter returns a new array, so it is as it was
removeComponentPrevious(state, type, id) == state.currentBuild

\* state.presets.find(p => p.id === presetId): <<>> if there is none
FindPreset(presets, presetId) == SelectSeq(presets, LAMBDA p : p.id = presetId)

\* the build loadPreset installs, preset.build itself
loadPreset(state, presetId) == FindPreset(state.presets, presetId)[1].build

\* newBuild of setTarget
setTarget(state, target) ==
    [state.currentBuild EXCEPT !.meta = [state.currentBuild.meta EXCEPT !.target = target]]

\* newBuild of setBudget
setBudget(state, budget) ==
    [state.currentBuild EXCEPT !.meta = [state.currentBuild.meta EXCEPT !.budget = budget]]

-----------------------------------------------------------------------------
(* The system: the process-wide rule registry and the calls of the entry points *)

\* rule objects a caller of the exported ruleEngine registers
noteRule == Rule("custom-note", "note", 95)
faultyRule == Rule("custom-faulty", "faulty", 88)

BlankReport ==
    [threw |-> FALSE, totalPrice |-> 0, lineItems |-> <<>>, errors |-> <<>>,
     warnings |-> <<>>, recommendations |-> <<>>, summary |-> "", fitment |-> <<>>]

\* no call yet, with the arguments b, c, p at hand
Pending(rs, b, c, p) ==
    [op |-> "none", build |-> b, catalog |-> c, prices |-> p, rules |-> rs,
     repeated |-> FALSE, sameRules |-> FALSE, threw |-> FALSE, findings |-> <<>>,
     report |-> BlankReport,
     args |-> [build |-> b, components |-> Catalog(c), prices |-> PriceList(p)]]

\* the call is a repetition: the call before it was of the same entry point
\* with the same arguments (repeated), and the registry held the same rules
\* with the same enabled flags at both calls (sameRules)
Repeats(before, op, b, c, p) ==
    before.op = op /\ before.build = b /\ before.catalog = c /\ before.prices = p

CheckCompatibilityCall(rs, b, c, p, repeated, sameRules) ==
    LET r == checkCompatibility(rs, b, Catalog(c))
        after == checkCompatibilityArguments(b, Catalog(c))
    IN  [op |-> "checkCompatibility", build |-> b, catalog |-> c, prices |-> p, rules |-> rs,
         repeated |-> repeated, sameRules |-> repeated /\ sameRules, threw |-> r.threw,
         findings |-> r.results, report |-> BlankReport,
         args |-> [build |-> after.build, components |-> after.components,
                   prices |-> PriceList(p)]]

GenerateBuildReportCall(rs, b, c, p, repeated, sameRules) ==
    LET r == generateBuildReport(rs, b, Catalog(c), PriceList(p))
    IN  [op |-> "generateBuildReport", build |-> b, catalog |-> c, prices |-> p, rules |-> rs,
         repeated |-> repeated, sameRules |-> repeated /\ sameRules, threw |-> r.threw,
         findings |-> <<>>, report |-> r,
         args |-> generateBuildReportArguments(rs, b, Catalog(c), PriceList(p))]

\* the builds, catalogs and price lists the system's calls are made with
SysBuilds ==
    {AllWrongBuild} \cup
    { Build(cpu, Undefined, motherboard, Undefined, Undefined, Undefined, ram, <<>>, "mixed") :
        cpu \in {"cpuA"}, motherboard \in {Undefined, "mbB"}, ram \in {<<>>, <<"ramA">>} }
SysCatalogs == {"full"}
SysPriceLists == {"all"}

\* the rule ids the system's callers enable and disable
ToggleIds == {"cpu-socket-match", "custom-note", "custom-faulty", "no-such-rule"}

\* the rule ids the system's callers unregister
UnregisterIds == {"custom-note"}

Init ==
    /\ rules = DefaultRules
    /\ unregistered = {noteRule, faultyRule}
    /\ last = Pending(DefaultRules, Build(Undefined, Undefined, Undefined, Undefined,
                          Undefined, Undefined, <<>>, <<>>, "mixed"), "full", "all")
    /\ store = InitialStore
    /\ call = NoCall

\* ruleEngine.register(rule) with a rule object that is not in the Map
Register ==
    \E rule \in unregistered :
        /\ rules' = register(rules, rule)
        /\ unregistered' = unregistered \ {rule}
        /\ UNCHANGED <<last, store, call>>

\* ruleEngine.register(rule) with a rule object that is in the Map already
RegisterAgain ==
    \E i \in 1..Len(rules) :
        /\ rules[i].id \in ToggleIds
        /\ rules' = register(rules, rules[i])
        /\ UNCHANGED <<unregistered, last, store, call>>

\* ruleEngine.unregister(ruleId); the caller keeps the rule object
Unregister ==
    \E i \in 1..Len(rules) :
        /\ rules[i].id \in UnregisterIds
        /\ rules' = unregister(rules, rules[i].id)
        /\ unregistered' = unregistered \cup {rules[i]}
        /\ UNCHANGED <<last, store, call>>

EnableRule ==
    \E ruleId \in ToggleIds :
        /\ rules' = enableRule(rules, ruleId)
        /\ UNCHANGED <<unregistered, last, store, call>>

DisableRule ==
    \E ruleId \in ToggleIds :
        /\ rules' = disableRule(rules, ruleId)
        /\ UNCHANGED <<unregistered, last, store, call>>

CheckCompatibility ==
    \E b \in SysBuilds, c \in SysCatalogs, p \in SysPriceLists :
        /\ last' = CheckCompatibilityCall(rules, b, c, p,
                                           Repeats(last, "checkCompatibility", b, c, p),
                                           last.rules = rules)
        /\ UNCHANGED <<rules, unregistered, store, call>>

GenerateBuildReport ==
    \E b \in SysBuilds, c \in SysCatalogs, p \in SysPriceLists :
        /\ last' = GenerateBuildReportCall(rules, b, c, p,
                                            Repeats(last, "generateBuildReport", b, c, p),
                                            last.rules = rules)
        /\ UNCHANGED <<rules, unregistered, store, call>>

Next ==
    \/ Register
    \/ RegisterAgain
    \/ Unregister
    \/ EnableRule
    \/ DisableRule
    \/ CheckCompatibility
    \/ GenerateBuildReport

Spec == Init /\ [][Next]_vars

-----------------------------------------------------------------------------
(* The entry points as pure functions of their arguments, with the seven     *)
(* default rules registered and enabled                                      *)

InitEval ==
    /\ rules = DefaultRules
    /\ unregistered = {noteRule, faultyRule}
    /\ \E b \in Builds, c \in CatalogNames, p \in PriceListNames :
           last = Pending(DefaultRules, b, c, p)
    /\ store = InitialStore
    /\ call = NoCall

EvalCheckCompatibility ==
    /\ last' = CheckCompatibilityCall(rules, last.build, last.catalog, last.prices, FALSE, FALSE)
    /\ UNCHANGED <<rules, unregistered, store, call>>

EvalGenerateBuildReport ==
    /\ last' = GenerateBuildReportCall(rules, last.build, last.catalog, last.prices, FALSE, FALSE)
    /\ UNCHANGED <<rules, unregistered, store, call>>

NextEval ==
    \/ EvalCheckCompatibility
    \/ EvalGenerateBuildReport

SpecEval == InitEval /\ [][NextEval]_vars

-----------------------------------------------------------------------------
(* The application store: its actions in any order (SpecStore) *)

\* what the callers of the store pass
StoreCatalogs == {CatalogFull}
StorePriceLists == {PricesAll}
\* selectComponent(type, id) on a singular slot and selectComponent(type, ids)
\* on ram and storage
Selections ==
    {[type |-> "cpu", id |-> "cpuA", ids |-> <<>>],
     [type |-> "ram", id |-> Undefined,
      ids |-> <<"ramA", "ramB", "ramC", "ramD", "ramE">>],
     [type |-> "storage", id |-> Undefined,
      ids |-> <<"ssd", "hdd", "ssdB", "ssdC", "ssdD", "hddB", "hddC">>]}
\* removeComponent(type) and removeComponent(type, id)
Removals == {<<"cpu", Undefined>>, <<"ram", Undefined>>, <<"ram", "ramA">>,
             <<"storage", "ssd">>}
StoreTargets == {"work"}
StoreBudgets == {1000}
PresetIds == {"budget-gaming", "no-such-preset"}
StorePresets ==
    {<<Preset("budget-gaming",
              [initialBuild EXCEPT !.cpu = "cpuA", !.ram = <<"ramA", "ramB", "ramA">>])>>}

\* the action called, the build before it, the object of that build after it
\* and the build the action's updater made
Called(op, type, id, ids, previous, build) ==
    [op |-> op, type |-> type, id |-> id, ids |-> ids, before |-> store.currentBuild,
     previous |-> previous, build |-> build]

InitStore ==
    /\ rules = DefaultRules
    /\ unregistered = {noteRule, faultyRule}
    /\ last = Pending(DefaultRules, Build(Undefined, Undefined, Undefined, Undefined,
                          Undefined, Undefined, <<>>, <<>>, "mixed"), "full", "all")
    /\ store = InitialStore
    /\ call = NoCall

SetComponents ==
    \E components \in StoreCatalogs :
        /\ store' = setComponents(store, components)
        /\ call' = Called("setComponents", "", Undefined, <<>>, store.currentBuild,
                          store.currentBuild)
        /\ UNCHANGED <<rules, unregistered, last>>

SetPrices ==
    \E prices \in StorePriceLists :
        /\ store' = setPrices(store, prices)
        /\ call' = Called("setPrices", "", Undefined, <<>>, store.currentBuild,
                          store.currentBuild)
        /\ UNCHANGED <<rules, unregistered, last>>

SetPresets ==
    \E presets \in StorePresets :
        /\ store' = setPresets(store, presets)
        /\ call' = Called("setPresets", "", Undefined, <<>>, store.currentBuild,
                          store.currentBuild)
        /\ UNCHANGED <<rules, unregistered, last>>

\* loadPreset with an id no preset has: return {}
LoadMissingPreset ==
    \E presetId \in PresetIds :
        /\ FindPreset(store.presets, presetId) = <<>>
        /\ call' = Called("loadPreset", "", presetId, <<>>, store.currentBuild,
                          store.currentBuild)
        /\ UNCHANGED <<rules, unregistered, last, store>>

\* The updaters of the five actions that make a new build; what they set is
\* in BuildAction.
SelectComponent ==
    \E selection \in Selections :
        call' = Called("selectComponent", selection.type, selection.id, selection.ids,
                       store.currentBuild,
                       selectComponent(store, selection.type,
                           IF selection.type \in ListKeys THEN selection.ids
                           ELSE selection.id))

RemoveComponent ==
    \E removal \in Removals :
        call' = Called("removeComponent", removal[1], removal[2], <<>>,
                       removeComponentPrevious(store, removal[1], removal[2]),
                       removeComponent(store, removal[1], removal[2]))

LoadPreset ==
    \E presetId \in PresetIds :
        /\ FindPreset(store.presets, presetId) # <<>>
        /\ call' = Called("loadPreset", "", presetId, <<>>, store.currentBuild,
                          loadPreset(store, presetId))

SetTarget ==
    \E target \in StoreTargets :
        call' = Called("setTarget", "", target, <<>>, store.currentBuild,
                       setTarget(store, target))

SetBudget ==
    \E budget \in StoreBudgets :
        call' = Called("setBudget", "", Undefined, <<>>, store.currentBuild,
                       setBudget(store, budget))

\* selectComponent, removeComponent, loadPreset, setTarget and setBudget: the
\* updater makes the new build, then the report is generated for it and both
\* are set
BuildAction ==
    /\ \/ SelectComponent
       \/ RemoveComponent
       \/ LoadPreset
       \/ SetTarget
       \/ SetBudget
    /\ store' = Regenerated(rules, store, call'.build)
    /\ UNCHANGED <<rules, unregistered, last>>

NextStore ==
    \/ SetComponents
    \/ SetPrices
    \/ SetPresets
    \/ LoadMissingPreset
    \/ BuildAction

SpecStore == InitStore /\ [][NextStore]_vars


-----------------------------------------------------------------------------
(* Properties of generateBuildReport and checkCompatibility as functions of  *)
(* their arguments (SpecEval)                                                *)

Reported == last.op = "generateBuildReport" /\ ~last.threw
Checked == last.op = "checkCompatibility" /\ ~last.threw

\* the findings of the Compatibility Evaluator the latest call returned
Errors == IF last.op = "generateBuildReport" THEN last.report.errors ELSE last.findings

\* the flattened selection: the filled single slots in slot order, then the
\* RAM entries, then the storage entries
Flattened(b) ==
    SelectSeq(<<b.cpu, b.gpu, b.motherboard, b.cooler, b.case, b.psu>> \o b.ram \o b.storage,
              LAMBDA id : id # Undefined)

HasPrice(prices, id) == \E i \in 1..Len(prices) : prices[i].componentId = id

\* the value of the first price of the list that is for id
FirstPriceValue(prices, id) ==
    prices[CHOOSE i \in 1..Len(prices) :
              /\ prices[i].componentId = id
              /\ \A j \in 1..(i - 1) : prices[j].componentId # id].value

RECURSIVE SumOfTotals(_)
SumOfTotals(items) ==
    IF items = <<>> THEN 0 ELSE Head(items).total + SumOfTotals(Tail(items))

\* C2: in every report, totalPrice is the sum of the line items' totals, and
\* every line item has total = unitPrice * quantity with quantity >= 1.
C2_TotalIsSumOfLineItems ==
    Reported =>
        /\ last.report.totalPrice = SumOfTotals(last.report.lineItems)
        /\ \A i \in 1..Len(last.report.lineItems) :
              LET item == last.report.lineItems[i]
              IN  item.total = item.unitPrice * item.quantity /\ item.quantity >= 1

C2_Witness ==
    /\ Reported
    /\ Len(last.report.lineItems) >= 2
    /\ \E i \in 1..Len(last.report.lineItems) : last.report.lineItems[i].quantity >= 2

Strip(b, components) ==
    LET Keep(id) == IF Resolves(components, id) THEN id ELSE Undefined
    IN  [b EXCEPT !.cpu = Keep(b.cpu), !.gpu = Keep(b.gpu),
                  !.motherboard = Keep(b.motherboard), !.cooler = Keep(b.cooler),
                  !.case = Keep(b.case), !.psu = Keep(b.psu),
                  !.ram = SelectSeq(b.ram, LAMBDA id : Resolves(components, id)),
                  !.storage = SelectSeq(b.storage, LAMBDA id : Resolves(components, id))]

RECURSIVE SumOfPrices(_, _, _)
\* the sum of the prices of the ids that resolve and have a price
SumOfPrices(ids, components, prices) ==
    IF ids = <<>> THEN 0
    ELSE (IF Resolves(components, Head(ids)) /\ HasPrice(prices, Head(ids))
          THEN FirstPriceValue(prices, Head(ids)) ELSE 0)
         + SumOfPrices(Tail(ids), components, prices)

Unresolved(b, components) ==
    { id \in { Flattened(b)[i] : i \in 1..Len(Flattened(b)) } : ~Resolves(components, id) }

Unpriced(b, components, prices) ==
    { id \in { Flattened(b)[i] : i \in 1..Len(Flattened(b)) } :
        Resolves(components, id) /\ ~HasPrice(prices, id) }

C6_NeverRaises ==
    (last.op # "none" /\ last.rules = DefaultRules) => ~last.threw

\* a report for a build whose case slot holds the id of a GPU of the catalog
\* and whose motherboard resolves
C6_Witness ==
    /\ Reported
    /\ last.catalog = "crossed"
    /\ last.build.case = "caseA" /\ last.build.motherboard = "mbB"
    /\ last.build.cpu = "cpuA"

SlotHolds(id, components, type) ==
    id # Undefined /\ Resolves(components, id) /\ Find(components, id).specs.type = type

CountCode(findings, code) == Cardinality({ i \in 1..Len(findings) : findings[i].code = code })

\* C9: checkCompatibility returns a cpu-socket-mismatch finding iff the cpu
\* and motherboard ids both resolve, to a CPU and a Motherboard, whose
\* sockets differ; then there is exactly one, of severity error, with
\* affectedIds = [cpuId, motherboardId].
C9_SocketMismatch ==
    (Reported \/ Checked) =>
        LET components == Catalog(last.catalog)
            b == last.build
            mismatch ==
                /\ SlotHolds(b.cpu, components, "CPU")
                /\ SlotHolds(b.motherboard, components, "Motherboard")
                /\ Find(components, b.cpu).specs.socket
                       # Find(components, b.motherboard).specs.socket
        IN  /\ CountCode(Errors, "cpu-socket-mismatch") = (IF mismatch THEN 1 ELSE 0)
            /\ \A i \in 1..Len(Errors) :
                  Errors[i].code = "cpu-socket-mismatch" =>
                      /\ Errors[i].severity = "error"
                      /\ Errors[i].affectedIds = <<b.cpu, b.motherboard>>

C9_Witness ==
    /\ Checked
    /\ last.build.cpu = "cpuA" /\ last.build.motherboard = "mbB"
    /\ CountCode(last.findings, "cpu-socket-mismatch") = 1

\* the ids of the list that resolve to a component of the type
Holding(ids, components, type) ==
    SelectSeq(ids, LAMBDA id : Resolves(components, id)
                               /\ Find(components, id).specs.type = type)

-----------------------------------------------------------------------------
(* Properties of the rule registry and of calls made while it changes (Spec) *)

C5_RaisingRuleIsolated ==
    (/\ last.op # "none"
     /\ \E i \in 1..Len(last.rules) :
            last.rules[i].check = "faulty" /\ last.rules[i].enabled)
        => /\ ~last.threw
           /\ Errors = execute(unregister(last.rules, "custom-faulty"), last.build,
                                Catalog(last.catalog)).results

\* a check of the build that breaks every rule, made while the raising rule
\* is registered and enabled: the call raised
C5_Witness ==
    /\ last.op = "checkCompatibility" /\ last.build = AllWrongBuild
    /\ \E i \in 1..Len(last.rules) :
           last.rules[i].check = "faulty" /\ last.rules[i].enabled
    /\ last.threw /\ last.findings = <<>>

\* the enabled rules of rs, the i-th of which has exactly Rank(en, i) rules
\* before it: those of higher priority and those of equal priority that were
\* registered earlier
Rank(en, i) ==
    Cardinality({ j \in 1..Len(en) :
                    \/ en[j].priority > en[i].priority
                    \/ en[j].priority = en[i].priority /\ j < i })

ByRank(rs) ==
    LET en == SelectSeq(rs, LAMBDA r : r.enabled)
    IN  [k \in 1..Len(en) |-> en[CHOOSE i \in 1..Len(en) : Rank(en, i) = k - 1]]

RECURSIVE NonNullResults(_, _, _)
NonNullResults(rs, build, components) ==
    IF rs = <<>> THEN <<>>
    ELSE RunCheck(Head(rs).check, build, components).res
             \o NonNullResults(Tail(rs), build, components)

Codes(findings) == [i \in 1..Len(findings) |-> findings[i].code]

\* C7: execute returns exactly the non-null results of the rules enabled at
\* the call, by descending priority, rules of equal priority in registration
\* order; with the default registry a build that breaks every rule gets the
\* findings of socket, RAM type, form factor, GPU length, PSU wattage, RAM
\* slots, cooler, in this order.
C7_EnabledByPriorityStable ==
    Checked =>
        /\ last.findings = NonNullResults(ByRank(last.rules), last.build,
                                            Catalog(last.catalog))
        /\ (last.rules = DefaultRules /\ last.build = AllWrongBuild) =>
               Codes(last.findings) =
                   <<"cpu-socket-mismatch", "ram-type-mismatch", "form-factor-incompatible",
                     "gpu-length-exceeds", "psu-insufficient", "ram-slots-exceed",
                     "cooler-incompatible">>

\* a rule of priority 95 registered after the default rules reports right
\* after the RAM type rule, which has priority 95 too
C7_Witness ==
    /\ Checked
    /\ last.build = AllWrongBuild
    /\ Codes(last.findings) =
           <<"cpu-socket-mismatch", "ram-type-mismatch", "custom-note",
             "form-factor-incompatible", "gpu-length-exceeds", "psu-insufficient",
             "ram-slots-exceed", "cooler-incompatible">>

\* the rule object of the id, registered or not
RuleObject(rs, un, ruleId) ==
    IF RuleIndex(rs, ruleId) # 0 THEN rs[RuleIndex(rs, ruleId)]
    ELSE CHOOSE r \in un : r.id = ruleId

RuleIds(rs, un) == { rs[i].id : i \in 1..Len(rs) } \cup { r.id : r \in un }

\* the findings but those the check of the rule returns
Without(findings, rule, build, components) ==
    LET own == RunCheck(rule.check, build, components)
    IN  SelectSeq(findings, LAMBDA f : own.threw \/ \A i \in 1..Len(own.res) : own.res[i] # f)

\* disableRule(id) on a registered rule leaves it disabled
DisableDisables ==
    \A ruleId \in ToggleIds :
        (RuleIndex(rules, ruleId) # 0 /\ rules' = disableRule(rules, ruleId))
            => ~rules'[RuleIndex(rules', ruleId)].enabled

\* a disabled rule stays disabled in every step but enableRule(id)
DisabledUntilEnabled ==
    \A ruleId \in RuleIds(rules, unregistered) :
        (/\ ~RuleObject(rules, unregistered, ruleId).enabled
         /\ RuleObject(rules', unregistered', ruleId).enabled)
            => RuleIndex(rules, ruleId) # 0 /\ rules' = enableRule(rules, ruleId)

\* enableRule(id) on a registered rule leaves it enabled
EnableEnables ==
    \A ruleId \in ToggleIds :
        (RuleIndex(rules, ruleId) # 0 /\ rules' = enableRule(rules, ruleId))
            => rules'[RuleIndex(rules', ruleId)].enabled

\* a call returns no finding of a rule that is disabled at the call and the
\* findings of each rule that is enabled; the findings of the other rules are
\* what they are with the rule toggled
CallObeysFlags ==
    Checked =>
        \A i \in 1..Len(last.rules) :
            LET rule == last.rules[i]
                components == Catalog(last.catalog)
                own == RunCheck(rule.check, last.build, components)
                toggled == execute(SetEnabled(last.rules, rule.id, ~rule.enabled),
                                   last.build, components)
            IN  /\ ~own.threw =>
                       \A k \in 1..Len(own.res) :
                           Includes(last.findings, own.res[k]) <=> rule.enabled
                /\ ~toggled.threw =>
                       Without(last.findings, rule, last.build, components)
                           = Without(toggled.results, rule, last.build, components)

\* C8: after disableRule(id) on a registered rule and until the next
\* enableRule(id) no call returns a finding of the rule; after enableRule(id)
\* its findings are returned again; the findings of the other rules are the
\* same whether or not the rule is disabled.
C8_DisabledRuleIsSilent ==
    [](CallObeysFlags) /\ [][DisableDisables /\ DisabledUntilEnabled /\ EnableEnables]_vars

\* a socket-mismatching build checked with cpu-socket-match disabled: the
\* other six findings and no cpu-socket-mismatch
C8_Witness ==
    /\ Checked
    /\ last.build = AllWrongBuild
    /\ ~last.rules[RuleIndex(last.rules, "cpu-socket-match")].enabled
    /\ CountCode(last.findings, "cpu-socket-mismatch") = 0
    /\ Len(last.findings) >= 6

-----------------------------------------------------------------------------
(* Properties of the PSU rule, the RAM slots rule and the findings'           *)
(* affectedIds (SpecEval)                                                     *)

\* the warnings of the Balance Evaluator in the latest report
Warnings == last.report.warnings

\* the component a single slot's id resolves to as a component of the slot's
\* type, <<>> if there is none
Typed(id, components, type) ==
    IF SlotHolds(id, components, type) THEN <<Find(components, id)>> ELSE <<>>

\* the components the list's ids resolve to as components of the type
TypedAll(ids, components, type) ==
    [i \in 1..Len(Holding(ids, components, type)) |->
        Find(components, Holding(ids, components, type)[i])]

\* 50 + cpu.tdpW + gpu.tdpW + 10 * RAM count + 5 * storage count
Estimate(cpu, gpu, ramCount, storageCount) ==
    50 + (IF cpu # <<>> THEN cpu[1].specs.tdpW ELSE 0)
       + (IF gpu # <<>> THEN gpu[1].specs.tdpW ELSE 0)
       + 10 * ramCount + 5 * storageCount

C12_SameResolutionAndEstimate ==
    Reported =>
        LET components == Catalog(last.catalog)
            b == last.build
        IN  /\ FindSlot(b.cpu, components) = getCPU(b, components)
            /\ FindSlot(b.gpu, components) = getGPU(b, components)
            /\ FindSlot(b.psu, components) = getPSU(b, components)
            /\ ResolveAll(b.ram, components) = getRAM(b, components)
            /\ ResolveAll(b.storage, components) = getStorage(b, components)
            /\ balanceEstimatedWatt(FindSlot(b.cpu, components), FindSlot(b.gpu, components),
                                    ResolveAll(b.ram, components),
                                    ResolveAll(b.storage, components))
                   = calculateEstimatedWatt(getCPU(b, components), getGPU(b, components),
                                            getRAM(b, components), getStorage(b, components))

\* the gpu slot holds the id of a Case: the PSU rule estimates 50 + 65 = 115 W,
\* the Balance Evaluator adds the Case's undefined tdpW and reports no
\* psu-oversized for a 300 W PSU
C12_Witness ==
    /\ Reported
    /\ last.catalog = "crossed"
    /\ last.build.cpu = "cpuA" /\ last.build.gpu = "gpuA" /\ last.build.psu = "psuA"
    /\ calculateEstimatedWatt(getCPU(last.build, CatalogCrossed),
                              getGPU(last.build, CatalogCrossed), <<>>, <<>>) = 115
    /\ balanceEstimatedWatt(FindSlot("cpuA", CatalogCrossed),
                            FindSlot("gpuA", CatalogCrossed), <<>>, <<>>) = NaN
    /\ CountCode(Warnings, "psu-oversized") = 0
    /\ CountCode(Errors, "psu-insufficient") + CountCode(Errors, "psu-close") = 0

\* C13 as stated: with a motherboard that resolves, ram-slots-exceed is
\* returned exactly when the number of entries of build.ram is greater than
\* motherboard.ramSlots.
C13_Original ==
    (Reported \/ Checked) =>
        LET components == Catalog(last.catalog)
            b == last.build
        IN  SlotHolds(b.motherboard, components, "Motherboard") =>
                CountCode(Errors, "ram-slots-exceed")
                    = (IF Len(b.ram) > Find(components, b.motherboard).specs.ramSlots
                       THEN 1 ELSE 0)

\* C13: with a motherboard that resolves, ram-slots-exceed is returned
\* exactly when the number of entries of build.ram that resolve to RAM
\* components is greater than motherboard.ramSlots; the finding is an error
\* and its message contains that number.
C13_RamSlotsCountResolved ==
    (Reported \/ Checked) =>
        LET components == Catalog(last.catalog)
            b == last.build
            n == Len(Holding(b.ram, components, "RAM"))
        IN  SlotHolds(b.motherboard, components, "Motherboard") =>
                LET slots == Find(components, b.motherboard).specs.ramSlots
                IN  /\ CountCode(Errors, "ram-slots-exceed") = (IF n > slots THEN 1 ELSE 0)
                    /\ \A i \in 1..Len(Errors) :
                           Errors[i].code = "ram-slots-exceed" =>
                               /\ Errors[i].severity = "error"
                               /\ Errors[i].message =
                                      "Too many RAM sticks (" \o ToString(n)
                                          \o ") for motherboard slots ("
                                          \o ToString(slots) \o ")"

\* four RAM entries on a motherboard with two slots
C13_Witness ==
    /\ Checked
    /\ last.catalog = "full"
    /\ last.build = DuplicatesBuild
    /\ CountCode(last.findings, "ram-slots-exceed") = 1

\* the ids of the elements of a sequence, as a set
IdSet(ids) == { ids[i] : i \in 1..Len(ids) }

\* C14 as stated: affectedIds holds the ids of all the components the rule
\* compared, in the order of the rule's trigger: [cpu, motherboard]; the
\* mismatching RAM ids then the motherboard; [motherboard, case]; [gpu, case];
\* the RAM ids then the motherboard; [cpu, cooler]; the PSU with the CPU, GPU,
\* RAM and storage components of the estimate.
C14_AffectedIdsAsStated ==
    (Reported \/ Checked) =>
        LET components == Catalog(last.catalog)
            b == last.build
            rams == Holding(b.ram, components, "RAM")
            storages == Holding(b.storage, components, "Storage")
            mismatching ==
                SelectSeq(rams, LAMBDA id : Find(components, id).specs.ramType
                                    # Find(components, b.motherboard).specs.ramType)
            estimated ==
                (IF SlotHolds(b.cpu, components, "CPU") THEN {b.cpu} ELSE {})
                    \cup (IF SlotHolds(b.gpu, components, "GPU") THEN {b.gpu} ELSE {})
                    \cup IdSet(rams) \cup IdSet(storages)
        IN  \A i \in 1..Len(Errors) :
                LET f == Errors[i]
                IN  /\ f.code = "cpu-socket-mismatch" => f.affectedIds = <<b.cpu, b.motherboard>>
                    /\ f.code = "ram-type-mismatch" =>
                           f.affectedIds = mismatching \o <<b.motherboard>>
                    /\ f.code = "form-factor-incompatible" =>
                           f.affectedIds = <<b.motherboard, b.case>>
                    /\ f.code = "gpu-length-exceeds" => f.affectedIds = <<b.gpu, b.case>>
                    /\ f.code = "ram-slots-exceed" => f.affectedIds = rams \o <<b.motherboard>>
                    /\ f.code = "cooler-incompatible" => f.affectedIds = <<b.cpu, b.cooler>>
                    /\ f.code \in {"psu-insufficient", "psu-close"} =>
                           IdSet(f.affectedIds) = {b.psu} \cup estimated

\* the build that breaks every rule: the motherboard comes first in the RAM
\* findings, the cooler first in the cooler finding, and the PSU finding
\* names the PSU alone
C14_Witness ==
    /\ Checked
    /\ last.build = AllWrongBuild /\ last.catalog = "full"
    /\ Len(last.findings) = 7
    /\ last.findings[1].affectedIds = <<"cpuA", "mbB">>
    /\ last.findings[2].affectedIds = <<"mbB", "ramA", "ramA">>
    /\ last.findings[5].affectedIds = <<"psuA">>
    /\ last.findings[6].affectedIds = <<"mbB", "ramA", "ramA">>
    /\ last.findings[7].affectedIds = <<"coolA", "cpuA">>

\* the sentences of a summary
FirstSentence(target, totalPrice) ==
    "Build for " \o target \o " with " \o ToString(totalPrice) \o " USD total."
ErrorClause(n) ==
    IF n > 0 THEN " " \o ToString(n) \o " compatibility error(s) found." ELSE ""
WarningClause(m) ==
    IF m > 0 THEN " " \o ToString(m) \o " balance warning(s)." ELSE ""
NoIssuesClause(n, m) ==
    IF n = 0 /\ m = 0 THEN " No issues detected." ELSE ""

-----------------------------------------------------------------------------
(* Properties of the Balance Evaluator and of the summary (SpecEval)         *)

\* what a single slot's id resolves to by id alone, <<>> if nothing
ById(id, components) ==
    IF id # Undefined /\ Resolves(components, id) THEN <<Find(components, id)>> ELSE <<>>

\* the ids of the list that resolve by id alone
ResolvedIds(ids, components) == SelectSeq(ids, LAMBDA id : Resolves(components, id))

RECURSIVE TotalCapacity(_, _)
TotalCapacity(ids, components) ==
    IF ids = <<>> THEN 0
    ELSE JsAdd(Find(components, Head(ids)).specs.capacityGB,
               TotalCapacity(Tail(ids), components))

\* C17: with T the sum of capacityGB over the resolved RAM entries,
\* checkBalance emits insufficient-ram-gaming iff the target is gaming and
\* T < 16, insufficient-ram-work iff the target is work and T < 32, neither
\* for mixed; affectedIds is the resolved RAM ids in build order; at most one
\* of the two codes appears.
C17_InsufficientRam ==
    Reported =>
        LET components == Catalog(last.catalog)
            b == last.build
            ramIds == ResolvedIds(b.ram, components)
            T == TotalCapacity(ramIds, components)
            gaming == CountCode(Warnings, "insufficient-ram-gaming")
            work == CountCode(Warnings, "insufficient-ram-work")
        IN  /\ gaming = (IF b.meta.target = "gaming" /\ JsLt(T, 16) THEN 1 ELSE 0)
            /\ work = (IF b.meta.target = "work" /\ JsLt(T, 32) THEN 1 ELSE 0)
            /\ b.meta.target = "mixed" => gaming = 0 /\ work = 0
            /\ gaming + work <= 1
            /\ \A i \in 1..Len(Warnings) :
                   Warnings[i].code \in {"insufficient-ram-gaming", "insufficient-ram-work"} =>
                       /\ Warnings[i].severity = "warning"
                       /\ Warnings[i].affectedIds = ramIds

\* a work build with 16 + 8 GB of RAM: below 32, above the gaming threshold
C17_Witness ==
    /\ Reported
    /\ last.catalog = "full"
    /\ last.build.meta.target = "work"
    /\ last.build.ram = <<"ramB", "ramA">>
    /\ \E i \in 1..Len(Warnings) :
           /\ Warnings[i].code = "insufficient-ram-work"
           /\ Warnings[i].affectedIds = <<"ramB", "ramA">>

C20_Summary ==
    Reported =>
        LET n == Len(last.report.errors)
            m == Len(last.report.warnings)
        IN  /\ last.report.summary =
                   FirstSentence(last.build.meta.target, last.report.totalPrice)
                       \o ErrorClause(n) \o WarningClause(m) \o NoIssuesClause(n, m)
            /\ (n = 0 /\ m = 0) => last.report.recommendations = <<>>

\* a mixed build of one SSD: no error, no warning
C20_Witness ==
    /\ Reported
    /\ last.catalog = "full" /\ last.prices = "all"
    /\ last.build.meta.target = "mixed" /\ last.build.storage = <<"ssd">>
    /\ last.report.summary = "Build for mixed with 80 USD total. No issues detected."
    /\ last.report.recommendations = <<>>

-----------------------------------------------------------------------------
(* Properties of the Recommendation Generator (SpecEval)                     *)

Recommendations == last.report.recommendations

\* the filter of the fix strategy a recommendation of the report comes from:
\* the strategy is known by the reasonCode and, where a code has two
\* strategies, by the component it replaces
PassesStrategy(rec, c, b, components) ==
    CASE rec.reasonCode = "cpu-socket-mismatch" /\ rec.replaceId = b.motherboard ->
             c.type = "Motherboard" /\ c.specs.socket = Find(components, b.cpu).specs.socket
      [] rec.reasonCode = "cpu-socket-mismatch" /\ rec.replaceId = b.cpu ->
             c.type = "CPU" /\ c.specs.socket = Find(components, b.motherboard).specs.socket
      [] rec.reasonCode = "ram-type-mismatch" ->
             c.type = "RAM" /\ c.specs.ramType = Find(components, b.motherboard).specs.ramType
      [] rec.reasonCode = "form-factor-incompatible" ->
             /\ c.type = "Case"
             /\ Includes(c.specs.formFactorCompatibility,
                         Find(components, b.motherboard).specs.formFactor)
      [] rec.reasonCode = "gpu-length-exceeds" /\ rec.replaceId = b.gpu ->
             /\ c.type = "GPU"
             /\ JsLe(c.specs.lengthMm, Find(components, b.case).specs.maxGpuLengthMm)
      [] rec.reasonCode = "gpu-length-exceeds" /\ rec.replaceId = b.case ->
             /\ c.type = "Case"
             /\ JsGe(c.specs.maxGpuLengthMm, Find(components, b.gpu).specs.lengthMm)
      [] rec.reasonCode = "psu-insufficient" ->
             c.type = "PSU" /\ JsGt(c.specs.wattage, Find(components, b.psu).specs.wattage)
      [] rec.reasonCode = "cpu-gpu-mismatch" /\ rec.replaceId = b.cpu ->
             c.type = "CPU" /\ JsGe(c.specs.cores, 6)
      [] rec.reasonCode = "cpu-gpu-mismatch" /\ rec.replaceId = b.gpu ->
             c.type = "GPU" /\ JsLt(c.specs.vramGB, 8)
      [] rec.reasonCode = "insufficient-ram-gaming" ->
             c.type = "RAM" /\ JsGe(c.specs.capacityGB, 8)
      [] rec.reasonCode = "insufficient-ram-work" ->
             c.type = "RAM" /\ JsGe(c.specs.capacityGB, 16)
      [] rec.reasonCode = "no-ssd" ->
             c.type = "Storage" /\ c.specs.storageType = "SSD"
      [] OTHER -> FALSE

RecognisedCodes ==
    {"cpu-socket-mismatch", "ram-type-mismatch", "form-factor-incompatible",
     "gpu-length-exceeds", "psu-insufficient", "cpu-gpu-mismatch",
     "insufficient-ram-gaming", "insufficient-ram-work", "no-ssd"}

CountReason(recs, code) == Cardinality({ i \in 1..Len(recs) : recs[i].reasonCode = code })

Repeat(x, n) == [i \in 1..n |-> x]

\* the reason codes of the recommendations, grouped in the order of the
\* findings they answer
RECURSIVE InFindingOrder(_, _)
InFindingOrder(findings, recs) ==
    IF findings = <<>> THEN <<>>
    ELSE Repeat(Head(findings).code, CountReason(recs, Head(findings).code))
         \o InFindingOrder(Tail(findings), recs)

\* C22: every recommendation carries the code of a finding given to
\* generateRecommendations; recommendations follow the order of the findings,
\* all errors before all warnings; a finding yields at most two of them and
\* a finding of a code without a strategy yields none; no finding, no
\* recommendation.
C22_ReasonCodesFollowFindings ==
    Reported =>
        LET allIssues == Errors \o Warnings
            recs == Recommendations
        IN  /\ \A i \in 1..Len(recs) :
                   \E k \in 1..Len(allIssues) : recs[i].reasonCode = allIssues[k].code
            /\ [i \in 1..Len(recs) |-> recs[i].reasonCode] = InFindingOrder(allIssues, recs)
            /\ \A k \in 1..Len(allIssues) :
                   /\ CountReason(recs, allIssues[k].code) <= 2
                   /\ allIssues[k].code \notin RecognisedCodes =>
                          CountReason(recs, allIssues[k].code) = 0
            /\ allIssues = <<>> => recs = <<>>

\* a report with a psu-close finding, which no strategy answers, although a
\* stronger PSU is in the catalog, two recommendations for the socket
\* mismatch before it and one for a warning after it
C22_Witness ==
    /\ Reported
    /\ last.catalog = "full"
    /\ CountCode(Errors, "psu-close") = 1
    /\ CountReason(Recommendations, "cpu-socket-mismatch") = 2
    /\ Recommendations[1].reasonCode = "cpu-socket-mismatch"
    /\ CountCode(Warnings, Recommendations[Len(Recommendations)].reasonCode) = 1

\* the first three ids of the catalog components of the type and the socket
SocketCandidates(components, type, socket) ==
    LET passing == SelectSeq(components, LAMBDA c : c.type = type /\ c.specs.socket = socket)
    IN  [j \in 1..(IF Len(passing) < 3 THEN Len(passing) ELSE 3) |-> passing[j].id]

C23_OnlyMotherboardFix ==
    /\ Reported
    /\ last.catalog = "crossed"
    /\ CountCode(Errors, "cpu-socket-mismatch") = 1
    /\ CountReason(Recommendations, "cpu-socket-mismatch") = 1
    /\ Recommendations[1].replaceId = last.build.motherboard

InsufficientRamCodes == {"insufficient-ram-gaming", "insufficient-ram-work"}

\* C24 as stated: each recommendation's replaceId is the empty string (an
\* addition) or the id of a selected component that resolves in the catalog;
\* for the insufficient-RAM codes it is the first selected RAM id.
C24_ReplaceIdSelectedOrEmpty ==
    Reported =>
        LET components == Catalog(last.catalog)
            b == last.build
        IN  \A i \in 1..Len(Recommendations) :
                LET rec == Recommendations[i]
                IN  /\ \/ rec.replaceId = ""
                       \/ /\ rec.replaceId \in IdSet(Flattened(b))
                          /\ Resolves(components, rec.replaceId)
                    /\ rec.reasonCode \in InsufficientRamCodes =>
                           Len(b.ram) > 0 /\ rec.replaceId = b.ram[1]

\* a build without RAM gets the advice to add RAM, with build.ram[0], which
\* is undefined, as the id to replace
C24_Witness ==
    /\ Reported
    /\ last.build.ram = <<>>
    /\ \E i \in 1..Len(Recommendations) :
           /\ Recommendations[i].reasonCode \in InsufficientRamCodes
           /\ Recommendations[i].replaceId = Undefined
           /\ Recommendations[i].alternatives # <<>>

CountSeverity(findings, severity) ==
    Cardinality({ i \in 1..Len(findings) : findings[i].severity = severity })

\* C28 as stated: every finding in the report's errors has severity error and
\* every finding in its warnings has severity warning.
C28_Original ==
    Reported =>
        /\ \A i \in 1..Len(Errors) : Errors[i].severity = "error"
        /\ \A i \in 1..Len(Warnings) : Warnings[i].severity = "warning"

\* C28: the report's errors are the findings of the Compatibility Evaluator:
\* they have severity error, except psu-close, which has severity warning
\* and is listed in errors all the same; every finding in warnings has
\* severity warning; the N of the summary is the length of errors, so it
\* counts the psu-close finding with the error-severity ones.
C28_ErrorsHoldPsuClose ==
    Reported =>
        /\ \A i \in 1..Len(Errors) :
               Errors[i].severity = (IF Errors[i].code = "psu-close" THEN "warning" ELSE "error")
        /\ \A i \in 1..Len(Warnings) : Warnings[i].severity = "warning"
        /\ CountCode(Warnings, "psu-close") = 0
        /\ last.report.summary =
               FirstSentence(last.build.meta.target, last.report.totalPrice)
                   \o ErrorClause(CountSeverity(Errors, "error") + CountCode(Errors, "psu-close"))
                   \o WarningClause(Len(Warnings))
                   \o NoIssuesClause(Len(Errors), Len(Warnings))

\* a report whose errors hold an error and the psu-close warning: N is 2
C28_Witness ==
    /\ Reported
    /\ CountCode(Errors, "psu-close") = 1
    /\ CountSeverity(Errors, "error") = 1
    /\ Len(Errors) = 2
    /\ last.report.summary =
           FirstSentence(last.build.meta.target, last.report.totalPrice)
               \o " 2 compatibility error(s) found." \o WarningClause(Len(Warnings))

\* C29 as stated: no recommendation lists its own replaceId among its
\* alternatives.
C29_Original ==
    Reported =>
        \A i \in 1..Len(Recommendations) :
            ~Includes(Recommendations[i].alternatives, Recommendations[i].replaceId)

\* the first three ids of the RAM modules of the catalog with at least half
\* the minimum of the code's target
BigEnoughRams(components, code) ==
    LET half == IF code = "insufficient-ram-gaming" THEN 8 ELSE 16
        passing == SelectSeq(components,
                       LAMBDA c : c.type = "RAM" /\ JsGe(c.specs.capacityGB, half))
    IN  [j \in 1..(IF Len(passing) < 3 THEN Len(passing) ELSE 3) |-> passing[j].id]

\* C29: a recommendation of every strategy but the insufficient-RAM one never
\* lists its own replaceId among its alternatives; the insufficient-RAM
\* strategy does not leave the selected modules out of its candidates, so its
\* alternatives hold its replaceId, the first selected RAM id, exactly when
\* that module is among the first three RAM modules of the catalog with
\* capacityGB >= minimum / 2.
C29_OnlyMoreRamProposesSelected ==
    Reported =>
        \A i \in 1..Len(Recommendations) :
            LET rec == Recommendations[i]
            IN  IF rec.reasonCode \in InsufficientRamCodes
                THEN Includes(rec.alternatives, rec.replaceId)
                         <=> Includes(BigEnoughRams(Catalog(last.catalog), rec.reasonCode),
                                      rec.replaceId)
                ELSE ~Includes(rec.alternatives, rec.replaceId)

\* one 16 GB module for a work build: the advice names it as the module to
\* replace and as the only alternative
C29_Witness ==
    /\ Reported
    /\ last.catalog = "full"
    /\ last.build.meta.target = "work"
    /\ last.build.ram = <<"ramB">>
    /\ \E i \in 1..Len(Recommendations) :
           /\ Recommendations[i].reasonCode = "insufficient-ram-work"
           /\ Recommendations[i].replaceId = "ramB"
           /\ Recommendations[i].alternatives = <<"ramB">>

-----------------------------------------------------------------------------
(* Properties of the application store (SpecStore)                           *)

\* C26 as stated: in every state of the store currentBuild.ram has at most 4
\* entries and currentBuild.storage at most 6.
C26_ListsBounded ==
    /\ Len(store.currentBuild.ram) <= MaxRam
    /\ Len(store.currentBuild.storage) <= MaxStorage

\* selectComponent('ram', ids) with five ids made them the build's RAM
C26_Witness ==
    /\ call.op = "selectComponent" /\ call.type = "ram"
    /\ Len(call.ids) = MaxRam + 1
    /\ store.currentBuild.ram = call.ids

\* the report generateBuildReport gives for the store's build, catalog and
\* price list
FreshReport ==
    generateBuildReport(rules, store.currentBuild, store.components, store.prices)

\* C27 as stated: the store's report is null or the report of its current
\* build, catalog and price list.
C27_ReportNeverStale ==
    store.report = <<>> \/ store.report = <<FreshReport>>

\* after setPrices the store shows the report made with the old price list
C27_Witness ==
    /\ call.op = "setPrices"
    /\ store.report # <<>>
    /\ store.report[1].totalPrice = 0
    /\ FreshReport.totalPrice > 0

\* the singular slots of a build
SlotKeys == {"cpu", "gpu", "motherboard", "cooler", "case", "psu"}

\* C30: removeComponent on ram or storage with an id removes every
\* occurrence of the id and keeps the other entries in their order; without
\* an id it empties the list; on a singular slot it clears that slot; every
\* other key of the build, meta included, is as before; the build object it
\* replaced is unmodified; the report is the one of the new build.
C30_RemoveComponent ==
    call.op = "removeComponent" =>
        LET old == call.before
            new == store.currentBuild
        IN  /\ (call.type \in ListKeys /\ Truthy(call.id)) =>
                   /\ new[call.type] = SelectSeq(old[call.type], LAMBDA i : i # call.id)
                   /\ ~Includes(new[call.type], call.id)
            /\ (call.type \in ListKeys /\ ~Truthy(call.id)) => new[call.type] = <<>>
            /\ call.type \in SlotKeys => new[call.type] = Undefined
            /\ \A key \in (SlotKeys \cup ListKeys \cup {"meta"}) \ {call.type} :
                   new[key] = old[key]
            /\ call.previous = old
            /\ store.report = <<FreshReport>>

\* both ramA sticks of [ramA, ramB, ramA] are removed at once
C30_Witness ==
    /\ call.op = "removeComponent" /\ call.type = "ram" /\ call.id = "ramA"
    /\ call.before.ram = <<"ramA", "ramB", "ramA">>
    /\ store.currentBuild.ram = <<"ramB">>
    /\ store.currentBuild.cpu = "cpuA"
    /\ call.before.meta.budget = 1000


====
